---- MODULE Spec2Model ----
(***************************************************************************)
(* Model of the LAI Event Brief extraction engine (parseLaiEventBrief and  *)
(* the helpers it calls).  Texts are TLA+ strings; offsets are 0-based as  *)
(* in JavaScript; an absent (null) value is the empty tuple and a present  *)
(* string s is the one-element tuple <<s>>.                                *)
(***************************************************************************)
EXTENDS Integers, Sequences, FiniteSets, TLC

VARIABLES
    pc,             \* position of the running call
    input,          \* the argument of the running call
    t,              \* parseLaiEventBrief: the canonical text
    bookingNumber,  \* parseLaiEventBrief: const bookingNumber
    sectionMap,     \* parseLaiEventBrief: const sectionMap
    header,         \* parseLaiEventBrief: const header
    sites,          \* parseLaiEventBrief: const sites
    contacts,       \* parseLaiEventBrief: const contacts
    schedule,       \* parseLaiEventBrief: the schedule field (scheduleBlock, flights)
    nextCapsLabelRe, \* parseSitesFromContactInfo: lastIndex of the newest nextCapsLabelRe
    output,         \* the value the call returned
    prevOutput,     \* the value the previous call returned
    pdfiumPromise,  \* worker.js: let _pdfiumPromise
    pdfiumInit,     \* getPdfium: position of the async initialisation function
    wasmFetches,    \* getPdfium: number of fetch(PDFIUM_WASM_URL) calls started
    heap,           \* extractPagesTextPdfium: the PDFium handles acquired and released
    pdfjsPromise,   \* pdf.js variant: let _pdfjsPromise
    pageCap         \* fetch: const maxPages

vars == <<pc, input, t, bookingNumber, sectionMap, header, sites, contacts, schedule,
          nextCapsLabelRe, output, prevOutput, pdfiumPromise, pdfiumInit, wasmFetches, heap,
          pdfjsPromise, pageCap>>
parseVars == <<t, bookingNumber, sectionMap, header, sites, contacts, schedule,
               nextCapsLabelRe>>
workerVars == <<pdfiumPromise, pdfiumInit, wasmFetches, heap, pdfjsPromise, pageCap>>

(***************************************************************************)
(* Bounds of the checked input spaces.                                     *)
(***************************************************************************)
MaxLen == 5
MaxFrags == 3
MaxContacts == 3
MaxSites == 2
MaxRequests == 2
MaxPages == 2

(***************************************************************************)
(* Strings and characters.                                                 *)
(***************************************************************************)
Null == <<>>
Some(s) == <<s>>
\* JavaScript truthiness of a string-or-null value
Truthy(o) == o # Null /\ o[1] # ""
\* `v || null` for a string v
OrNull(s) == IF s = "" THEN Null ELSE Some(s)

\* the character at offset i, "" when there is none
Ch(s, i) == IF i >= 0 /\ i < Len(s) THEN SubSeq(s, i + 1, i + 1) ELSE ""
\* String.prototype.slice(a, b) for 0 <= a, 0 <= b
Slice(s, a, b) ==
    LET lo == IF a > Len(s) THEN Len(s) ELSE a
        hi == IF b > Len(s) THEN Len(s) ELSE b
    IN IF hi <= lo THEN "" ELSE SubSeq(s, lo + 1, hi)

WsChars == {" ", "\t", "\n", "\r", "\f"}
DigitChars == {"0", "1", "2", "3", "4", "5", "6", "7", "8", "9"}
UpperStr == "ABCDEFGHIJKLMNOPQRSTUVWXYZ"
LowerStr == "abcdefghijklmnopqrstuvwxyz"
UpperChars == {Ch(UpperStr, i) : i \in 0..25}
LowerChars == {Ch(LowerStr, i) : i \in 0..25}
LetterChars == UpperChars \cup LowerChars
WordChars == LetterChars \cup DigitChars \cup {"_"}
ToUpperMap == [c \in LowerChars |-> Ch(UpperStr, CHOOSE i \in 0..25 : Ch(LowerStr, i) = c)]
ToLowerMap == [c \in UpperChars |-> Ch(LowerStr, CHOOSE i \in 0..25 : Ch(UpperStr, i) = c)]
UpChar(c) == IF c \in LowerChars THEN ToUpperMap[c] ELSE c
LowChar(c) == IF c \in UpperChars THEN ToLowerMap[c] ELSE c

\* What a character-wise rewrite emits for the character at offset i.  Each
\* rule is a global replace whose effect on a character depends only on its
\* neighbours:
\*   "cr"      .replace(/\r/g, "")
\*   "blanks"  .replace(/[ \t]+/g, " "): a run of blanks leaves one space
\*   "tighten" .replace(/ ?\n ?/g, "\n"): a space goes iff a newline is next to it
\*   "newlines" .replace(/\n{3,}/g, "\n\n"): a newline goes iff two precede it
EmitAt(s, i, rule) ==
    LET c == Ch(s, i)
    IN CASE rule = "cr" -> IF c = "\r" THEN "" ELSE c
         [] rule = "blanks" -> IF c \in {" ", "\t"}
                               THEN (IF Ch(s, i - 1) \in {" ", "\t"} THEN "" ELSE " ")
                               ELSE c
         [] rule = "tighten" -> IF c = " " /\ (Ch(s, i + 1) = "\n" \/ Ch(s, i - 1) = "\n")
                                THEN "" ELSE c
         [] rule = "newlines" -> IF c = "\n" /\ Ch(s, i - 1) = "\n" /\ Ch(s, i - 2) = "\n"
                                 THEN "" ELSE c

\* the rewrite of s[lo..hi-1], by halves
RECURSIVE Rewrite(_, _, _, _)
Rewrite(s, lo, hi, rule) ==
    IF hi <= lo THEN ""
    ELSE IF hi = lo + 1 THEN EmitAt(s, lo, rule)
    ELSE Rewrite(s, lo, (lo + hi) \div 2, rule) \o Rewrite(s, (lo + hi) \div 2, hi, rule)

\* toUpperCase, toLowerCase and .replace(/[^\d]+/g, "") of s[lo..hi-1], by halves
RECURSIVE UpperRange(_, _, _)
UpperRange(s, lo, hi) ==
    IF hi <= lo THEN ""
    ELSE IF hi = lo + 1 THEN UpChar(Ch(s, lo))
    ELSE UpperRange(s, lo, (lo + hi) \div 2) \o UpperRange(s, (lo + hi) \div 2, hi)
RECURSIVE LowerRange(_, _, _)
LowerRange(s, lo, hi) ==
    IF hi <= lo THEN ""
    ELSE IF hi = lo + 1 THEN LowChar(Ch(s, lo))
    ELSE LowerRange(s, lo, (lo + hi) \div 2) \o LowerRange(s, (lo + hi) \div 2, hi)
RECURSIVE DigitsRange(_, _, _)
DigitsRange(s, lo, hi) ==
    IF hi <= lo THEN ""
    ELSE IF hi = lo + 1 THEN (IF Ch(s, lo) \in DigitChars THEN Ch(s, lo) ELSE "")
    ELSE DigitsRange(s, lo, (lo + hi) \div 2) \o DigitsRange(s, (lo + hi) \div 2, hi)

ToUpperCase(s) == UpperRange(s, 0, Len(s))
ToLowerCase(s) == LowerRange(s, 0, Len(s))

\* end of the maximal run of characters of class C that starts at i
RunEnd(s, i, C) ==
    CHOOSE j \in i..Len(s) :
        /\ (j = Len(s) \/ Ch(s, j) \notin C)
        /\ \A k \in i..(j - 1) : Ch(s, k) \in C
\* end of the maximal run of characters outside class C that starts at i
RunEndNot(s, i, C) ==
    CHOOSE j \in i..Len(s) :
        /\ (j = Len(s) \/ Ch(s, j) \in C)
        /\ \A k \in i..(j - 1) : Ch(s, k) \notin C
\* start of the maximal run of characters of class C that ends before j
RunStart(s, j, C) ==
    CHOOSE i \in 0..j :
        /\ (i = 0 \/ Ch(s, i - 1) \notin C)
        /\ \A k \in i..(j - 1) : Ch(s, k) \in C

\* index of the first non-whitespace character at or after i (Len(s) if none)
SkipWs(s, i) == RunEnd(s, i, WsChars)
\* one past the index of the last non-whitespace character before j (0 if none)
SkipWsBack(s, j) == RunStart(s, j, WsChars)
\* String.prototype.trim
Trim(s) == Slice(s, SkipWs(s, 0), SkipWsBack(s, Len(s)))

(***************************************************************************)
(* normalize                                                               *)
(***************************************************************************)
StripCr(s) == Rewrite(s, 0, Len(s), "cr")
CollapseBlanks(s) == Rewrite(s, 0, Len(s), "blanks")
\* the chain without its third replace: spaces next to a newline are kept
TightenNothing(s) == s

TightenNewlines(s) == Rewrite(s, 0, Len(s), "tighten")
CollapseNewlines(s) == Rewrite(s, 0, Len(s), "newlines")

\* the chain with the carriage returns removed last instead of first
normalizeCrLast(s) ==
    Trim(StripCr(CollapseNewlines(TightenNewlines(CollapseBlanks(s)))))

normalize(s) ==
    Trim(CollapseNewlines(TightenNewlines(CollapseBlanks(StripCr(s)))))

(***************************************************************************)
(* Regular-expression primitives.  U is the text upper-cased: a regex with *)
(* the i flag compares canonicalized (upper-cased) characters.             *)
(***************************************************************************)
Min(S) == CHOOSE x \in S : \A y \in S : x <= y
Max(S) == CHOOSE x \in S : \A y \in S : x >= y

\* the literal LIT occurs in U at offset i
LitAt(U, i, LIT) == Slice(U, i, i + Len(LIT)) = LIT
\* \b at offset i
WordBoundary(s, i) ==
    (i > 0 /\ Ch(s, i - 1) \in WordChars) # (i < Len(s) /\ Ch(s, i) \in WordChars)
\* match1: String(m[1] ?? m[0]).trim(), or null when the regex does not match;
\* cap is the text of capture group 1 of the leftmost match, hit says whether
\* there is a match
Match1Result(hit, cap) == IF hit THEN Some(Trim(cap)) ELSE Null

\* the least element of a set of offsets, or -1 when it is empty
FirstOf(S) == IF S = {} THEN -1 ELSE Min(S)

\* /Booking\s*#\s*(\d{5,12})/i at offset i: the start of group 1, or -1
BookingAt(s, U, i) ==
    LET Digits(d) == IF RunEnd(s, d, DigitChars) - d < 5 THEN -1 ELSE d
        Hash(h) == IF ~(h < Len(s) /\ Ch(s, h) = "#") THEN -1 ELSE Digits(SkipWs(s, h + 1))
    IN IF ~LitAt(U, i, "BOOKING") THEN -1 ELSE Hash(SkipWs(s, i + 7))
\* match1(t, /Booking\s*#\s*(\d{5,12})/i)
MatchBooking(s) ==
    LET Capture(d, e) == Match1Result(TRUE, Slice(s, d, IF e - d > 12 THEN d + 12 ELSE e))
        Group(d) == Capture(d, RunEnd(s, d, DigitChars))
        Leftmost(U, i) == IF i < 0 THEN Null ELSE Group(BookingAt(s, U, i))
        Search(U) == Leftmost(U, FirstOf({i \in 0..Len(s) : BookingAt(s, U, i) >= 0}))
    IN Search(ToUpperCase(s))

(***************************************************************************)
(* splitByHeadingsMulti                                                    *)
(***************************************************************************)
Headings == <<"CONTACT INFORMATION", "SCHEDULE OF EVENTS", "EVENT DETAILS",
              "CLIENT DETAILS", "EVENT AGENDA", "TALENT INTRODUCTION",
              "EMERGENCY TRAVEL NUMBERS", "STAGE DIAGRAM", "COX CAMPUS MAP">>

\* new RegExp(`\\b${h}\\b`, "ig") at offset i
HeadingAt(s, U, i, h) ==
    /\ LitAt(U, i, h)
    /\ WordBoundary(s, i)
    /\ WordBoundary(s, i + Len(h))

\* offset of the first match of heading h at or after from, or -1
HeadingIndex(s, U, h, from) == FirstOf({i \in from..Len(s) : HeadingAt(s, U, i, h)})

\* the first match only: re.exec without the g flag restarts at offset 0, so
\* the loop would see the first occurrence and nothing after it
HeadingHitsFirstOnly(s, U, h, from) ==
    LET Hit(i) == IF i < 0 THEN <<>> ELSE <<[heading |-> h, idx |-> i, len |-> Len(h)]>>
    IN Hit(HeadingIndex(s, U, h, from))

\* while ((m = re.exec(text))) hits.push(...): every match of one heading,
\* each search starting at the end of the previous match
RECURSIVE HeadingHits(_, _, _, _)
HeadingHits(s, U, h, from) ==
    LET Hit(i) == IF i < 0 THEN <<>>
                  ELSE <<[heading |-> h, idx |-> i, len |-> Len(h)]>>
                       \o HeadingHits(s, U, h, i + Len(h))
    IN Hit(HeadingIndex(s, U, h, from))

\* for (const h of headings) ...
RECURSIVE AllHeadingHits(_, _, _, _)
AllHeadingHits(s, U, hs, k) ==
    IF k > Len(hs) THEN <<>>
    ELSE HeadingHits(s, U, hs[k], 0) \o AllHeadingHits(s, U, hs, k + 1)

\* an insertion that puts a hit before the hits of the same idx: a sort that
\* is not stable
RECURSIVE InsertBeforeEqualIdx(_, _)
InsertBeforeEqualIdx(sorted, x) ==
    IF sorted = <<>> THEN <<x>>
    ELSE IF sorted[Len(sorted)].idx < x.idx THEN Append(sorted, x)
    ELSE Append(InsertBeforeEqualIdx(SubSeq(sorted, 1, Len(sorted) - 1), x),
                sorted[Len(sorted)])

\* hits.sort((a, b) => a.idx - b.idx): a stable sort by idx
RECURSIVE InsertByIdx(_, _)
InsertByIdx(sorted, x) ==
    IF sorted = <<>> THEN <<x>>
    ELSE IF sorted[Len(sorted)].idx <= x.idx THEN Append(sorted, x)
    ELSE Append(InsertByIdx(SubSeq(sorted, 1, Len(sorted) - 1), x), sorted[Len(sorted)])
RECURSIVE SortByIdxFrom(_, _, _)
SortByIdxFrom(hits, k, acc) ==
    IF k > Len(hits) THEN acc ELSE SortByIdxFrom(hits, k + 1, InsertByIdx(acc, hits[k]))
SortByIdx(hits) == SortByIdxFrom(hits, 1, <<>>)

\* the sorted hits of splitByHeadingsMulti
SortedHeadingHits(text, headings) ==
    SortByIdx(AllHeadingHits(text, ToUpperCase(text), headings, 1))

\* the chunk of hit i cut from the start of the heading instead of its end
HitChunkFromHeading(text, hits, i) ==
    LET start == hits[i].idx
        end == IF i + 1 <= Len(hits) THEN hits[i + 1].idx ELSE Len(text)
    IN Trim(Slice(text, start, end))

\* the chunk of hit i: text.slice(start, end).trim()
HitChunk(text, hits, i) ==
    LET start == hits[i].idx + hits[i].len
        end == IF i + 1 <= Len(hits) THEN hits[i + 1].idx ELSE Len(text)
    IN Trim(Slice(text, start, end))

\* the loop that fills out: out[h].push(chunk)
RECURSIVE FillSections(_, _, _, _)
FillSections(text, hits, i, out) ==
    LET Push(h, chunk) ==
            [k \in DOMAIN out \cup {h} |->
                IF k # h THEN out[k]
                ELSE Append(IF h \in DOMAIN out THEN out[h] ELSE <<>>, chunk)]
    IN IF i > Len(hits) THEN out
       ELSE FillSections(text, hits, i + 1, Push(hits[i].heading, HitChunk(text, hits, i)))

splitByHeadingsMulti(text, headings) ==
    FillSections(text, SortedHeadingHits(text, headings), 1, <<>>)

\* sectionMap[h]?.[0], as a string-or-null
FirstSpan(map, h) == IF h \in DOMAIN map THEN Some(map[h][1]) ELSE Null
\* (sectionMap[h]?.[0] || "")
FirstSpanOrEmpty(map, h) == IF h \in DOMAIN map THEN map[h][1] ELSE ""
\* the last span of the list where the code takes the first
LastSpanOrNull(map, h) == IF h \in DOMAIN map THEN OrNull(map[h][Len(map[h])]) ELSE Null
\* (sectionMap[h]?.[0] || null)
FirstSpanOrNull(map, h) == IF h \in DOMAIN map THEN OrNull(map[h][1]) ELSE Null

(***************************************************************************)
(* Header block                                                            *)
(***************************************************************************)
\* offsets j at or after from where "\nCONTACT INFORMATION" occurs (i flag)
ContactHeadingAfter(U, from) ==
    {j \in from..Len(U) : LitAt(U, j, "\nCONTACT INFORMATION")}

\* /-\s*-\s*-\s*\n([\s\S]*?)\nCONTACT INFORMATION/i at offset i: the newline
\* offsets k the third \s* may stop before, for which the rest matches
HeaderNewlines(s, U, i) ==
    LET Dash(d) == d < Len(s) /\ Ch(s, d) = "-"
        Third(d3) == IF ~Dash(d3) THEN {}
                     ELSE {k \in (d3 + 1)..(SkipWs(s, d3 + 1) - 1) :
                             Ch(s, k) = "\n" /\ ContactHeadingAfter(U, k + 1) # {}}
        Second(d2) == IF ~Dash(d2) THEN {} ELSE Third(SkipWs(s, d2 + 1))
    IN IF ~Dash(i) THEN {} ELSE Second(SkipWs(s, i + 1))

\* matchBlock(t, /-\s*-\s*-\s*\n([\s\S]*?)\nCONTACT INFORMATION/i):
\* m ? String(m[1] || "").trim() : null.  The leftmost start wins; the greedy
\* \s* keeps the last newline it can; the lazy group ends at the first heading.
matchHeaderBlock(s) ==
    LET Group(U, k) == Some(Trim(Slice(s, k + 1, Min(ContactHeadingAfter(U, k + 1)))))
        Leftmost(U, i) == IF i < 0 THEN Null ELSE Group(U, Max(HeaderNewlines(s, U, i)))
        Search(U) == Leftmost(U, FirstOf({i \in 0..Len(s) : HeaderNewlines(s, U, i) # {}}))
    IN Search(ToUpperCase(s))

\* offset of the first "\n" at or after i (Len(s) if none)
LineEnd(s, i) == RunEndNot(s, i, {"\n"})

\* s.split("\n")
RECURSIVE SplitLines(_, _)
SplitLines(s, i) ==
    LET Line(e) == IF e >= Len(s) THEN <<Slice(s, i, e)>>
                   ELSE <<Slice(s, i, e)>> \o SplitLines(s, e + 1)
    IN Line(LineEnd(s, i))

\* .map(x => x.trim()).filter(Boolean)
RECURSIVE TrimAndDropEmpty(_, _)
TrimAndDropEmpty(ls, k) ==
    LET Keep(x) == IF x = "" THEN <<>> ELSE <<x>>
    IN IF k > Len(ls) THEN <<>>
       ELSE Keep(Trim(ls[k])) \o TrimAndDropEmpty(ls, k + 1)

\* block.split("\n").map(x => x.trim()).filter(Boolean)
Lines(s) == TrimAndDropEmpty(SplitLines(s, 0), 1)

DateWords == {"MONDAY", "TUESDAY", "WEDNESDAY", "THURSDAY", "FRIDAY", "SATURDAY", "SUNDAY",
              "JANUARY", "FEBRUARY", "MARCH", "APRIL", "MAY", "JUNE", "JULY", "AUGUST",
              "SEPTEMBER", "OCTOBER", "NOVEMBER", "DECEMBER"}

\* /\b(Monday|...|Sunday)\b/i.test(l) || /\b(January|...|December)\b/i.test(l)
HasDateWord(l) ==
    LET Test(U) == \E i \in 0..Len(l) : \E w \in DateWords :
                      LitAt(U, i, w) /\ WordBoundary(l, i) /\ WordBoundary(l, i + Len(w))
    IN Test(ToUpperCase(l))

\* lines.findIndex(...): the 1-based index of the first date line, 0 when none
FindDateIdx(lines) == 1 + FirstOf({k \in 0..(Len(lines) - 1) : HasDateWord(lines[k + 1])})

\* lines[k - 1] || null
LineOrNull(lines, k) == IF k <= Len(lines) THEN OrNull(lines[k]) ELSE Null

NullHeader ==
    [talentName |-> Null, clientName |-> Null, eventTitle |-> Null,
     eventDateText |-> Null, raw |-> Null]

\* parseHeaderBlock returning null instead of the all-null record
parseHeaderBlockNullOnMissing(block) ==
    LET Fields(lines, dateIdx) ==
            [talentName |-> LineOrNull(lines, 1), clientName |-> LineOrNull(lines, 2),
             eventTitle |-> LineOrNull(lines, 3),
             eventDateText |-> IF dateIdx >= 1 THEN Some(lines[dateIdx]) ELSE Null,
             raw |-> block]
        OfLines(lines) == Fields(lines, FindDateIdx(lines))
    IN IF ~Truthy(block) THEN Null ELSE OfLines(Lines(block[1]))

parseHeaderBlock(block) ==
    LET Fields(lines, dateIdx) ==
            [talentName |-> LineOrNull(lines, 1),
             clientName |-> LineOrNull(lines, 2),
             eventTitle |-> LineOrNull(lines, 3),
             eventDateText |-> IF dateIdx >= 1 THEN Some(lines[dateIdx]) ELSE Null,
             raw |-> block]
        OfLines(lines) == Fields(lines, FindDateIdx(lines))
    IN IF ~Truthy(block) THEN NullHeader ELSE OfLines(Lines(block[1]))

(***************************************************************************)
(* Field extractors                                                        *)
(***************************************************************************)
PhoneChars == DigitChars \cup {"(", ")", "-", " "}

\* <LABEL>\s*([0-9()\- ]{7,}) with the label ending at offset p: the offsets
\* where \s* may stop so that at least 7 phone characters follow
PhoneStarts(s, p) ==
    {q \in p..SkipWs(s, p) : RunEnd(s, q, PhoneChars) - q >= 7}

\* match1(s, /<LABEL>\s*([0-9()\- ]{7,})/i) for the upper-cased literal LABEL,
\* which must start at a word boundary when bounded
MatchPhoneAfter(s, LABEL, bounded) ==
    LET Group(q) == Match1Result(TRUE, Slice(s, q, RunEnd(s, q, PhoneChars)))
        Leftmost(i) == IF i < 0 THEN Null ELSE Group(Max(PhoneStarts(s, i + Len(LABEL))))
        Search(U) == Leftmost(FirstOf({i \in 0..Len(s) :
                                         /\ LitAt(U, i, LABEL)
                                         /\ (bounded => WordBoundary(s, i))
                                         /\ PhoneStarts(s, i + Len(LABEL)) # {}}))
    IN Search(ToUpperCase(s))

\* Email:\s*([^\s]+@[^\s]+) with the label ending at offset p: there is an @
\* inside the token that follows, with a character on each side
EmailTokenAt(s, p) ==
    LET Token(q) == \E a \in (q + 1)..(RunEndNot(s, q, WsChars) - 2) : Ch(s, a) = "@"
    IN Token(SkipWs(s, p))

\* match1(s, /Email:\s*([^\s]+@[^\s]+)/i)
MatchEmail(s) ==
    LET Group(q) == Match1Result(TRUE, Slice(s, q, RunEndNot(s, q, WsChars)))
        Leftmost(i) == IF i < 0 THEN Null ELSE Group(SkipWs(s, i + 6))
        Search(U) == Leftmost(FirstOf({i \in 0..Len(s) :
                                         LitAt(U, i, "EMAIL:") /\ EmailTokenAt(s, i + 6)}))
    IN Search(ToUpperCase(s))

\* <LABEL>\s*([^\n]+) with the label ending at offset p: the offsets where
\* \s* may stop so that a character other than "\n" follows
RestOfLineStarts(s, p) ==
    {q \in p..SkipWs(s, p) : q < Len(s) /\ Ch(s, q) # "\n"}

\* the alternatives of a label: each an upper-cased literal
LabelEnds(U, i, LABELS) == {i + Len(L) : L \in {L \in LABELS : LitAt(U, i, L)}}

\* match1(s, /<LABEL>\s*([^\n]+)/i), LABELS the spellings the label admits
MatchRestOfLine(s, LABELS) ==
    LET Ends(U, i) == {p \in LabelEnds(U, i, LABELS) : RestOfLineStarts(s, p) # {}}
        Group(q) == Match1Result(TRUE, Slice(s, q, LineEnd(s, q)))
        Leftmost(U, i) == IF i < 0 THEN Null
                          ELSE Group(Max(RestOfLineStarts(s, Max(Ends(U, i)))))
        Search(U) == Leftmost(U, FirstOf({i \in 0..Len(s) : Ends(U, i) # {}}))
    IN Search(ToUpperCase(s))

\* String.prototype.startsWith for an upper-cased prefix, ignoring case
StartsWithCI(l, PREFIX) == LitAt(ToUpperCase(l), 0, PREFIX)

\* Number(digits) for a string of decimal digits
DigitValue(c) == CHOOSE d \in 0..9 : Ch("0123456789", d) = c
RECURSIVE ToNumber(_, _)
ToNumber(digits, n) ==
    IF n = 0 THEN 0 ELSE 10 * ToNumber(digits, n - 1) + DigitValue(Ch(digits, n - 1))

ConfirmationChars == LetterChars \cup DigitChars \cup {"-"}

\* /Confirmation(?:\s*#|\s*Number)?:\s*([A-Z0-9\-]+)/i at offset i: the start of
\* group 1, or -1
ConfirmationAt(s, U, i) ==
    LET Group(q) == IF RunEnd(s, q, ConfirmationChars) > q THEN q ELSE -1
        Colon(p) == IF ~(p < Len(s) /\ Ch(s, p) = ":") THEN -1 ELSE Group(SkipWs(s, p + 1))
        Suffix(e, w) == Colon(IF w < Len(s) /\ Ch(s, w) = "#" THEN w + 1
                              ELSE IF LitAt(U, w, "NUMBER") THEN w + 6
                              ELSE e)
    IN IF ~LitAt(U, i, "CONFIRMATION") THEN -1 ELSE Suffix(i + 12, SkipWs(s, i + 12))

MatchConfirmation(s) ==
    LET Group(q) == Match1Result(TRUE, Slice(s, q, RunEnd(s, q, ConfirmationChars)))
        Leftmost(U, i) == IF i < 0 THEN Null ELSE Group(ConfirmationAt(s, U, i))
        Search(U) == Leftmost(U, FirstOf({i \in 0..Len(s) : ConfirmationAt(s, U, i) >= 0}))
    IN Search(ToUpperCase(s))

\* match1(s, /Nights:\s*(\d+)/i)
MatchNights(s) ==
    LET HasDigits(q) == RunEnd(s, q, DigitChars) > q
        Group(q) == Match1Result(TRUE, Slice(s, q, RunEnd(s, q, DigitChars)))
        Leftmost(i) == IF i < 0 THEN Null ELSE Group(SkipWs(s, i + 7))
        Search(U) == Leftmost(FirstOf({i \in 0..Len(s) :
                                         LitAt(U, i, "NIGHTS:") /\ HasDigits(SkipWs(s, i + 7))}))
    IN Search(ToUpperCase(s))

\* the currency signs of the model's alphabet
CurrencyChars == {"$"}

\* [0-9,]+(?:\.[0-9]{2})? at offset q: the end of the match, or -1
AmountEnd(s, q) ==
    LET Cents(r) == IF r = q THEN -1
                    ELSE IF /\ r + 2 < Len(s) /\ Ch(s, r) = "." /\ Ch(s, r + 1) \in DigitChars
                            /\ Ch(s, r + 2) \in DigitChars
                         THEN r + 3
                    ELSE r
    IN Cents(RunEnd(s, q, DigitChars \cup {","}))

\* Rate:\s*([$]?\s*[0-9,]+(?:\.[0-9]{2})?) with "Rate:" ending at p: the end of
\* group 1, or -1; group 1 starts at SkipWs(s, p)
RateEnd(s, p) ==
    LET Amount(q) == AmountEnd(s, IF q < Len(s) /\ Ch(s, q) \in CurrencyChars
                                  THEN SkipWs(s, q + 1) ELSE q)
    IN Amount(SkipWs(s, p))

MatchRate(s) ==
    LET Leftmost(i) == IF i < 0 THEN Null
                       ELSE Match1Result(TRUE, Slice(s, SkipWs(s, i + 5), RateEnd(s, i + 5)))
        Search(U) == Leftmost(FirstOf({i \in 0..Len(s) :
                                         LitAt(U, i, "RATE:") /\ RateEnd(s, i + 5) >= 0}))
    IN Search(ToUpperCase(s))

\* v || null for a match1 result
TruthyOrNull(o) == IF Truthy(o) THEN o ELSE Null

(***************************************************************************)
(* Sites                                                                   *)
(***************************************************************************)
\* `, `-joined lines
RECURSIVE JoinWith(_, _, _)
JoinWith(ls, sep, k) ==
    IF k > Len(ls) THEN ""
    ELSE IF k = Len(ls) THEN ls[k]
    ELSE ls[k] \o sep \o JoinWith(ls, sep, k + 1)

\* lines.filter(l => !/^Phone:/i.test(l) && !/^Email:/i.test(l))
RECURSIVE DropPhoneEmailLines(_, _)
DropPhoneEmailLines(ls, k) ==
    IF k > Len(ls) THEN <<>>
    ELSE (IF StartsWithCI(ls[k], "PHONE:") \/ StartsWithCI(ls[k], "EMAIL:") THEN <<>>
          ELSE <<ls[k]>>) \o DropPhoneEmailLines(ls, k + 1)

parseAddressBlock(block) ==
    LET Address(addrLines) ==
            IF Len(addrLines) > 0 THEN Some(JoinWith(addrLines, ", ", 1)) ELSE Null
        First4(kept) == SubSeq(kept, 1, IF Len(kept) > 4 THEN 4 ELSE Len(kept))
        OfLines(lines) ==
            [name |-> LineOrNull(lines, 1),
             address |-> Address(First4(DropPhoneEmailLines(lines, 1))),
             phone |-> MatchPhoneAfter(block, "PHONE:", FALSE),
             email |-> MatchEmail(block)]
    IN OfLines(Lines(block))

\* null, or the hotelDetails record
parseHotelDetails(block) ==
    LET Details(checkIn, checkOut, confirmation, roomType, nights, rate) ==
            IF ~(Truthy(checkIn) \/ Truthy(checkOut) \/ Truthy(confirmation)
                 \/ Truthy(roomType) \/ Truthy(nights) \/ Truthy(rate))
            THEN Null
            ELSE [checkIn |-> TruthyOrNull(checkIn),
                  checkOut |-> TruthyOrNull(checkOut),
                  confirmation |-> TruthyOrNull(confirmation),
                  roomType |-> TruthyOrNull(roomType),
                  nights |-> IF Truthy(nights) THEN <<ToNumber(nights[1], Len(nights[1]))>>
                             ELSE Null,
                  rate |-> TruthyOrNull(rate)]
    IN Details(MatchRestOfLine(block, {"CHECK-IN:", "CHECKIN:"}),
               MatchRestOfLine(block, {"CHECK-OUT:", "CHECKOUT:"}),
               MatchConfirmation(block),
               MatchRestOfLine(block, {"ROOM TYPE:"}),
               MatchNights(block),
               MatchRate(block))

\* a label pattern is its literal parts, which \s* separates
RECURSIVE PartsEnd(_, _, _, _, _)
PartsEnd(s, U, i, parts, k) ==
    IF ~LitAt(U, i, parts[k]) THEN -1
    ELSE IF k = Len(parts) THEN i + Len(parts[k])
    ELSE PartsEnd(s, U, SkipWs(s, i + Len(parts[k])), parts, k + 1)

\* new RegExp(`\\b${label}\\b\\s*:\\s*`, "i") at offset i: the end of the match,
\* or -1
LabelEndAt(s, U, i, parts) ==
    LET Colon(c) == IF c < Len(s) /\ Ch(s, c) = ":" THEN SkipWs(s, c + 1) ELSE -1
        Label(e) == IF e < 0 \/ ~WordBoundary(s, i) \/ ~WordBoundary(s, e) THEN -1
                    ELSE Colon(SkipWs(s, e))
    IN Label(PartsEnd(s, U, i, parts, 1))

siteLabels ==
    <<[type |-> "event", label |-> <<"EVENT SITE">>],
      [type |-> "event", label |-> <<"EVENT/HOTEL SITE">>],
      [type |-> "hotel", label |-> <<"HOTEL SITE">>],
      [type |-> "hotel", label |-> <<"HOTEL">>]>>

\* for (const s of siteLabels) { const m = re.exec(contactBlock); if (m) push }
RECURSIVE SiteLabelPositions(_, _, _)
SiteLabelPositions(block, U, k) ==
    LET Position(i) ==
            IF i < 0 THEN <<>>
            ELSE <<[type |-> siteLabels[k].type, idx |-> i,
                    matchLen |-> LabelEndAt(block, U, i, siteLabels[k].label) - i]>>
    IN IF k > Len(siteLabels) THEN <<>>
       ELSE Position(FirstOf({i \in 0..Len(block) :
                                LabelEndAt(block, U, i, siteLabels[k].label) >= 0}))
            \o SiteLabelPositions(block, U, k + 1)

CapsLabelChars == UpperChars \cup {" ", "/", "*"}

\* /\n[A-Z][A-Z \/\*]{3,}:\s*/ at offset i: the end of the match, or -1
CapsLabelEndAt(s, i) ==
    LET Colon(r) == IF r - (i + 2) >= 3 /\ r < Len(s) /\ Ch(s, r) = ":" THEN SkipWs(s, r + 1)
                    ELSE -1
    IN IF ~(i + 1 < Len(s) /\ Ch(s, i) = "\n" /\ Ch(s, i + 1) \in UpperChars) THEN -1
       ELSE Colon(RunEnd(s, i + 2, CapsLabelChars))

\* nextCapsLabelRe.exec(s) with the g flag: the search starts at lastIndex and
\* leaves lastIndex at the end of the match, or at 0 when there is none
execNextCapsLabel(s, lastIndex) ==
    LET Leftmost(i) == IF i < 0 THEN [found |-> FALSE, index |-> 0, lastIndex |-> 0]
                       ELSE [found |-> TRUE, index |-> i, lastIndex |-> CapsLabelEndAt(s, i)]
    IN Leftmost(FirstOf({i \in lastIndex..Len(s) : CapsLabelEndAt(s, i) >= 0}))

\* the site pushed for label position i, given its chunk after the cut
MakeSite(type, chunk) ==
    LET Base(parsed) == [type |-> type,
                         label |-> IF type = "event" THEN "EVENT SITE" ELSE "HOTEL SITE",
                         name |-> parsed.name, address |-> parsed.address,
                         phone |-> parsed.phone, email |-> parsed.email,
                         raw |-> Some(chunk)]
        With(base, hotelDetails) ==
            IF hotelDetails # Null
            THEN [k \in DOMAIN base \cup {"hotelDetails"} |->
                     IF k = "hotelDetails" THEN hotelDetails ELSE base[k]]
            ELSE base
    IN With(Base(parseAddressBlock(chunk)),
            IF type = "hotel" THEN parseHotelDetails(chunk) ELSE Null)

\* for (let i = 0; i < labelPositions.length; i++) { ... sites.push(...) };
\* lastIndex is the state nextCapsLabelRe carries from one iteration to the next
RECURSIVE SitesLoop(_, _, _, _)
SitesLoop(block, labelPositions, i, lastIndex) ==
    LET start == labelPositions[i].idx + labelPositions[i].matchLen
        end == IF i + 1 <= Len(labelPositions) THEN labelPositions[i + 1].idx
               ELSE Len(block)
        Cut(chunk, m2) == IF m2.found /\ m2.index > 0 THEN Trim(Slice(chunk, 0, m2.index))
                          ELSE chunk
        Push(chunk, m2) == <<MakeSite(labelPositions[i].type, Cut(chunk, m2))>>
                           \o SitesLoop(block, labelPositions, i + 1, m2.lastIndex)
        OfChunk(chunk) == Push(chunk, execNextCapsLabel("\n" \o chunk, lastIndex))
    IN IF i > Len(labelPositions) THEN <<>>
       ELSE OfChunk(Trim(Slice(block, start, end)))

\* lastIndex of nextCapsLabelRe when the loop over the label positions ends
RECURSIVE SitesLoopLastIndex(_, _, _, _)
SitesLoopLastIndex(block, labelPositions, i, lastIndex) ==
    LET start == labelPositions[i].idx + labelPositions[i].matchLen
        end == IF i + 1 <= Len(labelPositions) THEN labelPositions[i + 1].idx
               ELSE Len(block)
        OfChunk(chunk) ==
            SitesLoopLastIndex(block, labelPositions, i + 1,
                               execNextCapsLabel("\n" \o chunk, lastIndex).lastIndex)
    IN IF i > Len(labelPositions) THEN lastIndex
       ELSE OfChunk(Trim(Slice(block, start, end)))

\* lastIndex of nextCapsLabelRe when parseSitesFromContactInfo returns, for a
\* regex object that entered the loop with the given lastIndex
lastIndexAfterSites(contactBlock, lastIndex) ==
    IF contactBlock = "" THEN lastIndex
    ELSE SitesLoopLastIndex(contactBlock,
             SortByIdx(SiteLabelPositions(contactBlock, ToUpperCase(contactBlock), 1)),
             1, lastIndex)

\* one regex object kept for every call: it enters a call as the previous
\* call left it
RegExpShared(previous) == previous

\* const nextCapsLabelRe = /.../g: evaluating the literal makes a new object,
\* whose lastIndex is 0 whatever the previous object was left with
RegExpLiteral(previous) == 0

\* parseSitesFromContactInfo with nextCapsLabelRe entering the loop with the
\* given lastIndex
parseSitesEntering(contactBlock, lastIndex) ==
    LET Fallback(parsed) == <<[type |-> "event", label |-> "EVENT SITE",
                               name |-> parsed.name, address |-> parsed.address,
                               phone |-> parsed.phone, email |-> parsed.email,
                               raw |-> Some(contactBlock)]>>
        Sites(found) ==
            IF Len(found) > 0 THEN found
            ELSE IF Truthy(MatchPhoneAfter(contactBlock, "PHONE:", FALSE))
                 THEN Fallback(parseAddressBlock(contactBlock))
            ELSE <<>>
        Loop(labelPositions) == Sites(SitesLoop(contactBlock, labelPositions, 1, lastIndex))
    IN IF contactBlock = "" THEN <<>>
       ELSE Loop(SortByIdx(SiteLabelPositions(contactBlock, ToUpperCase(contactBlock), 1)))

parseSitesFromContactInfo(contactBlock) ==
    LET Fallback(parsed) == <<[type |-> "event", label |-> "EVENT SITE",
                               name |-> parsed.name, address |-> parsed.address,
                               phone |-> parsed.phone, email |-> parsed.email,
                               raw |-> Some(contactBlock)]>>
        Sites(found) ==
            IF Len(found) > 0 THEN found
            ELSE IF Truthy(MatchPhoneAfter(contactBlock, "PHONE:", FALSE))
                 THEN Fallback(parseAddressBlock(contactBlock))
            ELSE <<>>
        Loop(labelPositions) == Sites(SitesLoop(contactBlock, labelPositions, 1, 0))
    IN IF contactBlock = "" THEN <<>>
       ELSE Loop(SortByIdx(SiteLabelPositions(contactBlock, ToUpperCase(contactBlock), 1)))

(***************************************************************************)
(* Contacts                                                                *)
(***************************************************************************)
labelDefs ==
    <<[group |-> "client_onsite",
       labels |-> << <<"CLIENT ONSITE CONTACT">>, <<"CLIENT ONSITE CONTACTS">> >>],
      [group |-> "lai_onsite",
       labels |-> << <<"LEADING AUTHORITIES ONSITE CONTACT">>,
                     <<"LEADING AUTHORITIES ONSITE CONTACTS">> >>],
      [group |-> "lai_contacts",
       labels |-> << <<"LEADING AUTHORITIES CONTACTS">>,
                     <<"LEADING AUTHORITIES", "CONTACTS">> >>],
      [group |-> "talent", labels |-> << <<"TALENT CONTACT">> >>]>>

\* while ((m = re.exec(block))) hits.push(...): every match of one label
RECURSIVE LabelHits(_, _, _, _, _)
LabelHits(s, U, group, parts, from) ==
    LET Hit(i, e) == <<[group |-> group, label |-> parts, idx |-> i, len |-> e - i]>>
                     \o LabelHits(s, U, group, parts, e)
        Leftmost(i) == IF i < 0 THEN <<>> ELSE Hit(i, LabelEndAt(s, U, i, parts))
    IN Leftmost(FirstOf({i \in from..Len(s) : LabelEndAt(s, U, i, parts) >= 0}))

\* for (const rawLabel of def.labels) ...
RECURSIVE DefHits(_, _, _, _)
DefHits(s, U, def, k) ==
    IF k > Len(def.labels) THEN <<>>
    ELSE LabelHits(s, U, def.group, def.labels[k], 0) \o DefHits(s, U, def, k + 1)

\* for (const def of labelDefs) ...
RECURSIVE AllLabelHits(_, _, _, _)
AllLabelHits(s, U, defs, k) ==
    IF k > Len(defs) THEN <<>>
    ELSE DefHits(s, U, defs[k], 1) \o AllLabelHits(s, U, defs, k + 1)

\* the loop that pushes { group, text } per hit
RECURSIVE LabeledChunks(_, _, _)
LabeledChunks(block, hits, i) ==
    IF i > Len(hits) THEN <<>>
    ELSE LET start == hits[i].idx + hits[i].len
             end == IF i + 1 <= Len(hits) THEN hits[i + 1].idx ELSE Len(block)
         IN <<[group |-> hits[i].group, text |-> Trim(Slice(block, start, end))]>>
            \o LabeledChunks(block, hits, i + 1)

sliceLabeledChunks(block, defs) ==
    LabeledChunks(block, SortByIdx(AllLabelHits(block, ToUpperCase(block), defs, 1)), 1)

\* v1 || v2 for two match1 results
OrElse(a, b) == IF Truthy(a) THEN a ELSE b

\* offset of the first "," of l, or -1
CommaIndex(l) == FirstOf({i \in 0..(Len(l) - 1) : Ch(l, i) = ","})

\* null, or the Contact of one person block
parsePersonBlock(block, group) ==
    LET Person(nameTitleLine, c) ==
            [group |-> group,
             name |-> OrNull(IF c >= 0 THEN Trim(Slice(nameTitleLine, 0, c))
                             ELSE nameTitleLine),
             title |-> IF c >= 0
                       THEN OrNull(Trim(Slice(nameTitleLine, c + 1, Len(nameTitleLine))))
                       ELSE Null,
             office |-> MatchPhoneAfter(block, "OFFICE:", FALSE),
             cell |-> OrElse(MatchPhoneAfter(block, "CELL:", FALSE),
                             MatchPhoneAfter(block, "MOBILE:", FALSE)),
             email |-> MatchEmail(block),
             raw |-> Some(block)]
        OfLine(nameTitleLine) ==
            IF nameTitleLine = "" THEN Null
            ELSE Person(nameTitleLine, CommaIndex(nameTitleLine))
    IN OfLine(Trim(SplitLines(block, 0)[1]))

\* the name characters of the model's alphabet
NameChars == LetterChars \cup {"'", ".", "-", " "}

\* /^[A-Z][a-zA-Z'.\- ]+,\s+/.test(l)
newPerson(l) ==
    LET Comma(r) == r > 1 /\ r + 1 < Len(l) /\ Ch(l, r) = "," /\ Ch(l, r + 1) \in WsChars
    IN Len(l) > 0 /\ Ch(l, 0) \in UpperChars /\ Comma(RunEnd(l, 1, NameChars))

\* a loop that never starts a new span: every line joins the first one
PersonBlocksUnsplit(lines, k, cur) ==
    IF Len(lines) = 0 THEN <<>> ELSE <<JoinWith(lines, "\n", 1)>>

\* for (const l of lines) { ... } if (cur.length) blocks.push(cur.join("\n"))
RECURSIVE PersonBlocks(_, _, _)
PersonBlocks(lines, k, cur) ==
    LET Flush(rest) == (IF Len(cur) > 0 THEN <<JoinWith(cur, "\n", 1)>> ELSE <<>>) \o rest
    IN IF k > Len(lines) THEN Flush(<<>>)
       ELSE IF newPerson(lines[k]) /\ Len(cur) > 0
            THEN Flush(PersonBlocks(lines, k + 1, <<lines[k]>>))
       ELSE PersonBlocks(lines, k + 1, Append(cur, lines[k]))

\* blocks.map(b => parsePersonBlock(b, group)).filter(Boolean)
RECURSIVE PersonsOf(_, _, _)
PersonsOf(blocks, group, k) ==
    LET Keep(person) == IF person = Null THEN <<>> ELSE <<person>>
    IN IF k > Len(blocks) THEN <<>>
       ELSE Keep(parsePersonBlock(blocks[k], group)) \o PersonsOf(blocks, group, k + 1)

parsePeopleList(text, group) ==
    LET Blocks(lines, found) ==
            IF Len(found) = 0 THEN <<JoinWith(lines, "\n", 1)>> ELSE found
        OfLines(lines) ==
            IF Len(lines) = 0 THEN <<>>
            ELSE PersonsOf(Blocks(lines, PersonBlocks(lines, 1, <<>>)), group, 1)
    IN OfLines(Lines(text))

\* match1(block, /^(.+?)(?:\n|\(|$)/i) for a non-empty block
MatchPrimaryName(block) ==
    LET Group(e) == IF e < Len(block) /\ Ch(block, e) = "\r" THEN Null
                    ELSE Match1Result(TRUE, Slice(block, 0, e))
    IN IF Len(block) = 0 \/ Ch(block, 0) \in {"\n", "\r"} THEN Null
       ELSE Group(RunEndNot(block, 1, {"\n", "\r", "("}))

\* match1(block, /\(will be accompanied by ([^)]+)\)/i)
MatchCompanion(block) ==
    LET Open == "(WILL BE ACCOMPANIED BY "
        Closed(a, e) == e > a /\ e < Len(block)
        Group(a) == Match1Result(TRUE, Slice(block, a, RunEndNot(block, a, {")"})))
        Leftmost(i) == IF i < 0 THEN Null ELSE Group(i + Len(Open))
        Search(U) ==
            Leftmost(FirstOf({i \in 0..Len(block) :
                                /\ LitAt(U, i, Open)
                                /\ Closed(i + Len(Open),
                                          RunEndNot(block, i + Len(Open), {")"}))}))
    IN Search(ToUpperCase(block))

\* match1(block, /[A-Z][a-zA-Z]+['']s Cell:\s*([0-9()\- ]{7,})/i)
MatchCompanionCell(block) ==
    LET Label(U, i, o) == o - i >= 2 /\ LitAt(U, o, "'S CELL:")
                          /\ PhoneStarts(block, o + 8) # {}
        Group(q) == Match1Result(TRUE, Slice(block, q, RunEnd(block, q, PhoneChars)))
        Leftmost(i) ==
            IF i < 0 THEN Null
            ELSE Group(Max(PhoneStarts(block, RunEnd(block, i, LetterChars) + 8)))
        Search(U) == Leftmost(FirstOf({i \in 0..Len(block) :
                                         Label(U, i, RunEnd(block, i, LetterChars))}))
    IN Search(ToUpperCase(block))

parseTalentContacts(text) ==
    LET Talent(block, companion) ==
            [group |-> "talent",
             name |-> TruthyOrNull(MatchPrimaryName(block)),
             title |-> Null,
             cell |-> TruthyOrNull(MatchPhoneAfter(block, "CELL:", TRUE)),
             email |-> MatchEmail(block),
             companion |-> TruthyOrNull(companion),
             raw |-> Some(block)]
        Companion(block, companion) ==
            IF ~Truthy(companion) THEN <<>>
            ELSE <<[group |-> "talent_companion",
                    name |-> companion,
                    title |-> Null,
                    cell |-> TruthyOrNull(MatchCompanionCell(block)),
                    email |-> Null,
                    raw |-> Some(block)]>>
        Out(block, companion) == <<Talent(block, companion)>> \o Companion(block, companion)
        OfBlock(block) == IF block = "" THEN <<>> ELSE Out(block, MatchCompanion(block))
    IN OfBlock(Trim(text))

\* String(s || "").replace(/[^\d]+/g, "")
normalizePhone(s) == DigitsRange(s, 0, Len(s))

\* (c.f || ""): the field as a string, "" when it is null or not a field of c
FieldOrEmpty(c, f) == IF f \in DOMAIN c /\ c[f] # Null THEN c[f][1] ELSE ""

\* the fields dedupeContacts compares, before they are joined
contactKeyParts(c) ==
    <<ToLowerCase(c.group),
      ToLowerCase(FieldOrEmpty(c, "name")),
      ToLowerCase(FieldOrEmpty(c, "email")),
      normalizePhone(FieldOrEmpty(c, "cell")),
      normalizePhone(FieldOrEmpty(c, "office"))>>

\* the key without the group
contactKeyNoGroup(c) == JoinWith(<<"">> \o Tail(contactKeyParts(c)), "|", 1)

\* [group, name, email, cell, office].join("|")
contactKey(c) == JoinWith(contactKeyParts(c), "|", 1)

\* for (const c of list) { if (seen.has(key)) continue; seen.add(key); out.push(c) }
RECURSIVE DedupeLoop(_, _, _)
DedupeLoop(list, k, seen) ==
    LET Visit(key) == IF key \in seen THEN DedupeLoop(list, k + 1, seen)
                      ELSE <<list[k]>> \o DedupeLoop(list, k + 1, seen \cup {key})
    IN IF k > Len(list) THEN <<>> ELSE Visit(contactKey(list[k]))

dedupeContacts(list) == DedupeLoop(list, 1, {})

\* for (const ch of chunks) out.push(...)
RECURSIVE ContactsOfChunks(_, _)
ContactsOfChunks(chunks, k) ==
    IF k > Len(chunks) THEN <<>>
    ELSE (IF chunks[k].group = "talent" THEN parseTalentContacts(chunks[k].text)
          ELSE parsePeopleList(chunks[k].text, chunks[k].group))
         \o ContactsOfChunks(chunks, k + 1)

parseContactsFromContactInfo(contactBlock) ==
    IF contactBlock = "" THEN <<>>
    ELSE dedupeContacts(ContactsOfChunks(sliceLabeledChunks(contactBlock, labelDefs), 1))

(***************************************************************************)
(* Flights                                                                 *)
(***************************************************************************)
\* [A-Z][A-Za-z]+ at offset i: the end of the word, or -1
CapWordEnd(s, i) ==
    LET Word(e) == IF e - i >= 2 THEN e ELSE -1
    IN IF i < Len(s) /\ Ch(s, i) \in UpperChars THEN Word(RunEnd(s, i, LetterChars)) ELSE -1

\* (?:\s+[A-Z][A-Za-z]+)* from offset e: the end of the last word taken
RECURSIVE CapWordsEnd(_, _)
CapWordsEnd(s, e) ==
    LET Next(w, x) == IF w > e /\ x >= 0 THEN CapWordsEnd(s, x) ELSE e
        Word(w) == Next(w, CapWordEnd(s, w))
    IN Word(SkipWs(s, e))

\* \b([A-Z]{2,}|[A-Z][A-Za-z]+(?:\s+[A-Z][A-Za-z]+)*)\s+#?(\d{2,5})\b at offset
\* i.  Both alternatives start with a word of two or more letters whose first
\* is a capital and must be followed by white space, so the airline is the
\* longest run of capitalized words.
FlightHeadAt(s, i) ==
    LET Leg(e, w, h, r) ==
            [ok |-> e >= 0 /\ w > e /\ r - h >= 2 /\ r - h <= 5 /\ WordBoundary(s, r),
             airlineEnd |-> e, numStart |-> h, numEnd |-> r]
        Number(e, w, h) == Leg(e, w, h, RunEnd(s, h, DigitChars))
        Hash(e, w) == Number(e, w, IF w < Len(s) /\ Ch(s, w) = "#" THEN w + 1 ELSE w)
        Airline(e) == Hash(e, IF e >= 0 THEN SkipWs(s, e) ELSE 0)
        First(x) == Airline(IF WordBoundary(s, i) /\ x >= 0 THEN CapWordsEnd(s, x) ELSE -1)
    IN First(CapWordEnd(s, i))

\* the match ending at the flight number, with nothing taken after it
FlightRestEmpty(s, x) == x

\* [\s\S]*?(?=\n\n|<flight head>|$) from offset x: the end of the match
FlightRestEnd(s, x) ==
    Min({y \in x..Len(s) : y = Len(s) \/ LitAt(s, y, "\n\n") \/ FlightHeadAt(s, y).ok})

AlnumChars == LetterChars \cup DigitChars

\* <LABEL>(\s*|\s+)([A-Z0-9]+) with the i flag, LABEL ending at p: the start of
\* group 1, or -1
AlnumAfter(s, p, needWs, boundedEnd) ==
    LET Group(q, r) ==
            IF r > q /\ (needWs => q > p) /\ (boundedEnd => WordBoundary(s, r)) THEN q ELSE -1
        Start(q) == Group(q, RunEnd(s, q, AlnumChars))
    IN Start(SkipWs(s, p))

\* match1(s, /<LABEL>...([A-Z0-9]+)/i), LABEL an upper-cased literal
MatchAlnumAfter(s, LABEL, boundedStart, needWs, boundedEnd) ==
    LET Group(q) == Match1Result(TRUE, Slice(s, q, RunEnd(s, q, AlnumChars)))
        Leftmost(i) ==
            IF i < 0 THEN Null
            ELSE Group(AlnumAfter(s, i + Len(LABEL), needWs, boundedEnd))
        Search(U) ==
            Leftmost(FirstOf({i \in 0..Len(s) :
                                /\ LitAt(U, i, LABEL)
                                /\ (boundedStart => WordBoundary(s, i))
                                /\ AlnumAfter(s, i + Len(LABEL), needWs, boundedEnd) >= 0}))
    IN Search(ToUpperCase(s))

\* the FlightLeg of the match that starts at offset i and ends at offset x
MakeFlight(s, i, x) ==
    LET Leg(m, raw) ==
            [airline |-> Trim(Slice(s, i, m.airlineEnd)),
             flightNumber |-> Trim(Slice(s, m.numStart, m.numEnd)),
             \* "Airline Reservation Code:" holds "Reservation Code:", which matches
             \* wherever the longer spelling does
             reservationCode |-> MatchAlnumAfter(raw, "RESERVATION CODE:", FALSE, FALSE, FALSE),
             seat |-> OrElse(MatchAlnumAfter(raw, "SEAT:", TRUE, FALSE, FALSE),
                             MatchAlnumAfter(raw, "SEAT", TRUE, TRUE, TRUE)),
             raw |-> Some(raw)]
    IN Leg(FlightHeadAt(s, i), normalize(Slice(s, i, x)))

\* while ((m = re.exec(scheduleBlock))) flights.push(...)
RECURSIVE FlightsFrom(_, _)
FlightsFrom(s, from) ==
    LET Push(i, x) == <<MakeFlight(s, i, x)>> \o FlightsFrom(s, x)
        Leftmost(i) == IF i < 0 THEN <<>>
                       ELSE Push(i, FlightRestEnd(s, FlightHeadAt(s, i).numEnd))
    IN Leftmost(FirstOf({i \in from..Len(s) : FlightHeadAt(s, i).ok}))

\* the loop leaving after its first match
parseFlightsFirstOnly(scheduleBlock) ==
    LET First(flights) == SubSeq(flights, 1, IF Len(flights) > 1 THEN 1 ELSE Len(flights))
    IN First(FlightsFrom(scheduleBlock, 0))

parseFlights(scheduleBlock) == FlightsFrom(scheduleBlock, 0)

(***************************************************************************)
(* Confidence                                                              *)
(***************************************************************************)
\* const score = (v) => (v ? 1 : 0)
score(v) == IF Truthy(v) THEN 1 ELSE 0

\* Math.round((total / max) * 100) for 0 <= total <= max
RoundedPercent(total, max) == (200 * total + max) \div (2 * max)

\* the score with the event date left out of the header score
computeConfidenceNoDate(x) ==
    LET total == score(x.bookingNumber) + score(x.talentName) + score(x.clientName)
                 + score(x.eventTitle)
                 + (IF Len(x.sites) > 0 THEN 1 ELSE 0) + (IF Len(x.contacts) > 0 THEN 1 ELSE 0)
    IN [overall |-> RoundedPercent(total, 7),
        hasBookingNumber |-> Truthy(x.bookingNumber),
        hasHeader |-> Truthy(x.talentName) \/ Truthy(x.clientName) \/ Truthy(x.eventTitle),
        hasSites |-> Len(x.sites) > 0,
        hasContacts |-> Len(x.contacts) > 0]

\* the score with the branches of sitesScore swapped
computeConfidenceSwappedSites(x) ==
    LET total == score(x.bookingNumber) + score(x.talentName) + score(x.clientName)
                 + score(x.eventTitle) + score(x.eventDateText)
                 + (IF Len(x.sites) > 0 THEN 0 ELSE 1) + (IF Len(x.contacts) > 0 THEN 1 ELSE 0)
    IN [overall |-> RoundedPercent(total, 7),
        hasBookingNumber |-> Truthy(x.bookingNumber),
        hasHeader |-> Truthy(x.talentName) \/ Truthy(x.clientName)
                      \/ Truthy(x.eventTitle) \/ Truthy(x.eventDateText),
        hasSites |-> Len(x.sites) > 0,
        hasContacts |-> Len(x.contacts) > 0]

computeConfidence(x) ==
    LET headerScore == score(x.bookingNumber) + score(x.talentName) + score(x.clientName)
                       + score(x.eventTitle) + score(x.eventDateText)
        sitesScore == IF Len(x.sites) > 0 THEN 1 ELSE 0
        contactsScore == IF Len(x.contacts) > 0 THEN 1 ELSE 0
        total == headerScore + sitesScore + contactsScore
        max == 7
    IN [overall |-> RoundedPercent(total, max),
        hasBookingNumber |-> Truthy(x.bookingNumber),
        hasHeader |-> Truthy(x.talentName) \/ Truthy(x.clientName)
                      \/ Truthy(x.eventTitle) \/ Truthy(x.eventDateText),
        hasSites |-> Len(x.sites) > 0,
        hasContacts |-> Len(x.contacts) > 0]

(***************************************************************************)
(* Specification of normalize: the input is any string of at most MaxLen   *)
(* characters over NormAlphabet.                                           *)
(***************************************************************************)
NormAlphabet == {"a", " ", "\t", "\r", "\n", "\f"}

RECURSIVE StringsUpTo(_, _)
StringsUpTo(A, n) ==
    IF n = 0 THEN {""}
    ELSE LET prev == StringsUpTo(A, n - 1)
         IN prev \cup {s \o c : s \in prev, c \in A}

NoParse ==
    /\ t = "" /\ bookingNumber = Null /\ sectionMap = <<>> /\ header = Null
    /\ sites = <<>> /\ contacts = <<>> /\ schedule = Null /\ nextCapsLabelRe = 0
    /\ pdfiumPromise = Null /\ pdfiumInit = <<>> /\ wasmFetches = 0 /\ heap = <<>>
    /\ pdfjsPromise = Null /\ pageCap = 0

InitNormalize ==
    /\ pc = "call"
    /\ input \in StringsUpTo(NormAlphabet, MaxLen)
    /\ output = ""
    /\ prevOutput = ""
    /\ NoParse

CallNormalize ==
    /\ pc = "call"
    /\ output' = normalize(input)
    /\ pc' = "returned"
    /\ UNCHANGED <<workerVars, input, prevOutput, parseVars>>

\* the caller passes the result back in
RenormalizeOutput ==
    /\ pc = "returned"
    /\ prevOutput' = output
    /\ output' = normalize(output)
    /\ pc' = "renormalized"
    /\ UNCHANGED <<workerVars, input, parseVars>>

NextNormalize == CallNormalize \/ RenormalizeOutput

SpecNormalize == InitNormalize /\ [][NextNormalize]_vars

(***************************************************************************)
(* Specification of parseLaiEventBrief: the raw text is a concatenation of *)
(* at most MaxFrags fragments of one of the fragment families, or one of   *)
(* the fixed briefs; the call runs statement by statement.                 *)
(***************************************************************************)
SegmentFrags ==
    {"Booking # 999999\n", "- - -\nJane\n", "CONTACT INFORMATION", "EVENT DETAILS",
     "S", "\nb1 \n", "event details b2\n"}

BlockFrags ==
    {"CONTACT INFORMATION\n",
     "CLIENT ONSITE CONTACT: Al B, Mgr\nOffice: 5551234\n",
     "LEADING AUTHORITIES ONSITE CONTACT: Al B, Mgr\nOffice: 5551234\n",
     "Client Onsite Contacts: Al B, Mgr\nOffice: 5551234\n",
     "EVENT SITE: Hall\nPhone: (555) 123\n"}

\* site and contact blocks with missing or optional parts, and a label that
\* both of its spellings match at one offset
DetailFrags ==
    {"CONTACT INFORMATION\n",
     "EVENT SITE:\n",
     "HOTEL SITE: Inn\nNights: 2\n",
     "TALENT CONTACT: Tom (will be accompanied by Ann)\nAnn's Cell: 555-1234\n",
     "LEADING AUTHORITIES CONTACTS: Al B, Mgr\n"}

\* briefs with a section that is not one of the five the record retains, and
\* with a schedule section outside a complete brief
OtherSectionTexts ==
    {"EVENT AGENDA\nb3\n",
     "EVENT AGENDA\nb3\nEVENT DETAILS\nb1\n",
     "CONTACT INFORMATION\nEVENT SITE: Hall\nPhone: (555) 123\nEVENT AGENDA\nb3\n",
     "SCHEDULE OF EVENTS\nAA 1234 Seat 12A\n",
     "SCHEDULE OF EVENTS\nAA 1234 Seat 12A\nEVENT AGENDA\nb3\n"}

\* briefs whose header block holds a date line or a line that starts like the
\* CONTACT INFORMATION heading
HeaderTexts ==
    {"- - -\nJane\nAcme\nGala\nMonday, May 5\nCONTACT INFORMATION\n",
     "- - -\nJane\nAcme\nMay 5\nCONTACT INFORMATION\n",
     "- - -\nJane\nCONTACT INFORMATIONS\nb1\nCONTACT INFORMATION\n"}

\* the values a complete brief is filled in with
BriefBookings == {"123456", "12345678"}
BriefTalents == {"Jane Doe", "Dr. Al Roe"}
BriefSitePhones == {"(555) 123-4567", "555 123 4567"}
BriefPeople == {[name |-> "John Smith", office |-> "(555) 987-6543"],
                [name |-> "Al O'Neil", office |-> "555-9876"]}
BriefLegs == {[airline |-> "AA", flightNumber |-> "1234", code |-> "ABCDEF", seat |-> "12A"],
              [airline |-> "DL", flightNumber |-> "0042", code |-> "X1Y2Z3", seat |-> "3C"]}

\* a complete brief: booking line, divider, four header lines, a CONTACT
\* INFORMATION section with an event site and a client onsite contact, and a
\* SCHEDULE OF EVENTS section with one flight line
BriefText(booking, talent, sitePhone, person, leg) ==
    "LAI Event Brief\nBooking # " \o booking \o "\n- - -\n"
    \o talent \o "\nAcme Corp\nAnnual Gala\nMonday, May 5, 2025\n"
    \o "CONTACT INFORMATION\n"
    \o "EVENT SITE: Grand Hall\n1 Main St\nPhone: " \o sitePhone \o "\n"
    \o "CLIENT ONSITE CONTACT: " \o person.name \o ", Manager\n"
    \o "Office: " \o person.office \o "\n"
    \o "SCHEDULE OF EVENTS\n"
    \o leg.airline \o " " \o leg.flightNumber \o " Reservation Code: " \o leg.code
    \o " Seat " \o leg.seat \o "\n"

BriefTexts ==
    {BriefText(booking, talent, sitePhone, person, leg) :
        booking \in BriefBookings, talent \in BriefTalents, sitePhone \in BriefSitePhones,
        person \in BriefPeople, leg \in BriefLegs}

RECURSIVE Concats(_, _)
Concats(F, n) ==
    IF n = 0 THEN {""}
    ELSE LET prev == Concats(F, n - 1)
         IN prev \cup {s \o f : s \in prev, f \in F}

Texts ==
    Concats(SegmentFrags, MaxFrags) \cup Concats(BlockFrags, MaxFrags)
    \cup Concats(DetailFrags, MaxFrags) \cup OtherSectionTexts \cup HeaderTexts
    \cup BriefTexts

InitParse ==
    /\ pc = "normalize"
    /\ input \in Texts
    /\ output = Null
    /\ prevOutput = Null
    /\ NoParse

\* const t = normalize(rawText)
StepNormalize ==
    /\ pc = "normalize"
    /\ t' = normalize(input)
    /\ pc' = "booking"
    /\ UNCHANGED <<workerVars, input, bookingNumber, sectionMap, header, sites, contacts, schedule,
                   output, prevOutput, nextCapsLabelRe>>

\* const bookingNumber = match1(t, /Booking\s*#\s*(\d{5,12})/i)
StepBooking ==
    /\ pc = "booking"
    /\ bookingNumber' = MatchBooking(t)
    /\ pc' = "split"
    /\ UNCHANGED <<workerVars, input, t, sectionMap, header, sites, contacts, schedule, output, prevOutput, nextCapsLabelRe>>

\* const sectionMap = splitByHeadingsMulti(t, [...])
StepSplit ==
    /\ pc = "split"
    /\ sectionMap' = splitByHeadingsMulti(t, Headings)
    /\ pc' = "header"
    /\ UNCHANGED <<workerVars, input, t, bookingNumber, header, sites, contacts, schedule, output,
                   prevOutput, nextCapsLabelRe>>

\* const header = parseHeaderBlock(matchBlock(t, ...))
StepHeader ==
    /\ pc = "header"
    /\ header' = parseHeaderBlock(matchHeaderBlock(t))
    /\ pc' = "sites"
    /\ UNCHANGED <<workerVars, input, t, bookingNumber, sectionMap, sites, contacts, schedule, output,
                   prevOutput, nextCapsLabelRe>>

\* const contactBlock = (sectionMap["CONTACT INFORMATION"]?.[0] || "")
contactBlock == FirstSpanOrEmpty(sectionMap, "CONTACT INFORMATION")

\* const sites = parseSitesFromContactInfo(contactBlock)
StepSites ==
    /\ pc = "sites"
    /\ sites' = parseSitesFromContactInfo(contactBlock)
    /\ nextCapsLabelRe' = lastIndexAfterSites(contactBlock, 0)
    /\ pc' = "contacts"
    /\ UNCHANGED <<workerVars, input, t, bookingNumber, sectionMap, header, contacts, schedule, output,
                   prevOutput>>

\* const contacts = parseContactsFromContactInfo(contactBlock)
StepContacts ==
    /\ pc = "contacts"
    /\ contacts' = parseContactsFromContactInfo(contactBlock)
    /\ pc' = "schedule"
    /\ UNCHANGED <<workerVars, input, t, bookingNumber, sectionMap, header, sites, schedule, output,
                   prevOutput, nextCapsLabelRe>>

\* scheduleBlock ? { flights, raw: scheduleBlock } : null
StepSchedule ==
    /\ pc = "schedule"
    /\ LET scheduleBlock == FirstSpanOrNull(sectionMap, "SCHEDULE OF EVENTS")
       IN schedule' = IF Truthy(scheduleBlock)
                      THEN [flights |-> parseFlights(scheduleBlock[1]), raw |-> scheduleBlock]
                      ELSE Null
    /\ pc' = "assemble"
    /\ UNCHANGED <<workerVars, input, t, bookingNumber, sectionMap, header, sites, contacts, output,
                   prevOutput, nextCapsLabelRe>>

\* the record parseLaiEventBrief returns
ParsedBrief ==
    [bookingNumber |-> bookingNumber,
     header |-> header,
     sites |-> sites,
     contacts |-> contacts,
     schedule |-> schedule,
     sections |-> [contactInformation |-> OrNull(contactBlock),
                   eventDetails |-> FirstSpanOrNull(sectionMap, "EVENT DETAILS"),
                   clientDetails |-> FirstSpanOrNull(sectionMap, "CLIENT DETAILS"),
                   talentIntroduction |-> FirstSpanOrNull(sectionMap, "TALENT INTRODUCTION")],
     confidence |-> computeConfidence(
                        [bookingNumber |-> bookingNumber,
                         talentName |-> header.talentName,
                         clientName |-> header.clientName,
                         eventTitle |-> header.eventTitle,
                         eventDateText |-> header.eventDateText,
                         sites |-> sites,
                         contacts |-> contacts])]

\* computeConfidence({... header.talentName ...}) and the return statement;
\* reading a property of null throws a TypeError
StepAssemble ==
    /\ pc = "assemble"
    /\ IF header = Null
       THEN pc' = "thrown" /\ output' = output
       ELSE pc' = "done" /\ output' = ParsedBrief
    /\ UNCHANGED <<workerVars, input, prevOutput, parseVars>>

NextParse ==
    \/ StepNormalize
    \/ StepBooking
    \/ StepSplit
    \/ StepHeader
    \/ StepSites
    \/ StepContacts
    \/ StepSchedule
    \/ StepAssemble

SpecParse == InitParse /\ [][NextParse]_vars

(***************************************************************************)
(* Specification of dedupeContacts: the list holds at most MaxContacts     *)
(* contacts, each one the parse of a person or talent block.               *)
(***************************************************************************)
ContactPool ==
    {parsePersonBlock("Al, Mgr\nCell: (555) 123-4567\nEmail: b|c@x", "client_onsite"),
     parsePersonBlock("AL, Mgr\nCell: 555-123-4567\nEmail: B|C@X", "client_onsite"),
     parsePersonBlock("Al, Mgr\nCell: (555) 123-4567\nEmail: b|c@x", "lai_onsite"),
     parsePersonBlock("Al|b, Mgr\nCell: (555) 123-4567\nEmail: c@x", "client_onsite"),
     parseTalentContacts("Al\nCell: (555) 123-4567\nEmail: b|c@x")[1]}

RECURSIVE SeqsUpTo(_, _)
SeqsUpTo(S, n) ==
    IF n = 0 THEN {<<>>}
    ELSE LET prev == SeqsUpTo(S, n - 1)
         IN prev \cup {Append(q, x) : q \in prev, x \in S}

InitDedupe ==
    /\ pc = "call"
    /\ input \in SeqsUpTo(ContactPool, MaxContacts)
    /\ output = <<>>
    /\ prevOutput = <<>>
    /\ NoParse

CallDedupe ==
    /\ pc = "call"
    /\ output' = dedupeContacts(input)
    /\ pc' = "returned"
    /\ UNCHANGED <<workerVars, input, prevOutput, parseVars>>

\* the caller passes the result back in
RededupeOutput ==
    /\ pc = "returned"
    /\ prevOutput' = output
    /\ output' = dedupeContacts(output)
    /\ pc' = "rededuped"
    /\ UNCHANGED <<workerVars, input, parseVars>>

NextDedupe == CallDedupe \/ RededupeOutput

SpecDedupe == InitDedupe /\ [][NextDedupe]_vars

(***************************************************************************)
(* Specification of computeConfidence: each of the five header facts is    *)
(* null or a string, with at most MaxSites sites and MaxContacts contacts; *)
(* after the call one absent fact is added and the score computed again.   *)
(***************************************************************************)
SampleSite == parseSitesFromContactInfo("EVENT SITE: Hall")[1]
SampleContact == parsePersonBlock("Al, Mgr", "client_onsite")
ScalarFacts == {"bookingNumber", "talentName", "clientName", "eventTitle", "eventDateText"}
ListFacts == {"sites", "contacts"}

ConfidenceInputs ==
    {[f \in ScalarFacts \cup ListFacts |->
        IF f \in ScalarFacts THEN (IF f \in present THEN Some("x") ELSE Null)
        ELSE IF f = "sites" THEN ss ELSE cs] :
     present \in SUBSET ScalarFacts,
     ss \in SeqsUpTo({SampleSite}, MaxSites),
     cs \in SeqsUpTo({SampleContact}, MaxContacts)}

\* fact f is absent from x
Absent(x, f) == IF f \in ScalarFacts THEN x[f] = Null ELSE x[f] = <<>>
\* x with the absent fact f present
WithFact(x, f) ==
    [x EXCEPT ![f] = IF f \in ScalarFacts THEN Some("x")
                     ELSE IF f = "sites" THEN <<SampleSite>> ELSE <<SampleContact>>]

InitConfidence ==
    /\ pc = "call"
    /\ input \in ConfidenceInputs
    /\ output = Null
    /\ prevOutput = Null
    /\ NoParse

CallComputeConfidence ==
    /\ pc = "call"
    /\ output' = computeConfidence(input)
    /\ pc' = "returned"
    /\ UNCHANGED <<workerVars, input, prevOutput, parseVars>>

\* the same input with one absent fact present is scored
AddFactAndScore ==
    /\ pc = "returned"
    /\ \E f \in ScalarFacts \cup ListFacts :
          /\ Absent(input, f)
          /\ input' = WithFact(input, f)
    /\ prevOutput' = output
    /\ output' = computeConfidence(input')
    /\ pc' = "added"
    /\ UNCHANGED <<workerVars, parseVars>>

NextConfidence == CallComputeConfidence \/ AddFactAndScore

SpecConfidence == InitConfidence /\ [][NextConfidence]_vars

(***************************************************************************)
(* buildPagedText                                                          *)
(***************************************************************************)
\* text.split("\f") from offset i
RECURSIVE SplitFormFeeds(_, _)
SplitFormFeeds(s, i) ==
    LET Chunk(e) == IF e >= Len(s) THEN <<Slice(s, i, e)>>
                    ELSE <<Slice(s, i, e)>> \o SplitFormFeeds(s, e + 1)
    IN Chunk(RunEndNot(s, i, {"\f"}))

\* \bPage\s+\d+\s+of\s+\d+\b with the i flag at offset i
PageOfAt(s, U, i) ==
    LET Total(d) == RunEnd(s, d, DigitChars) > d /\ WordBoundary(s, RunEnd(s, d, DigitChars))
        Of(o) == LitAt(U, o, "OF") /\ SkipWs(s, o + 2) > o + 2 /\ Total(SkipWs(s, o + 2))
        Space(e) == SkipWs(s, e) > e /\ Of(SkipWs(s, e))
        Number(d) == RunEnd(s, d, DigitChars) > d /\ Space(RunEnd(s, d, DigitChars))
    IN /\ WordBoundary(s, i) /\ LitAt(U, i, "PAGE")
       /\ SkipWs(s, i + 4) > i + 4 /\ Number(SkipWs(s, i + 4))

\* text.split(markerRe) from offset p: the pattern is a lookahead, so the text
\* is cut before every match that starts after p
RECURSIVE SplitBeforePageOf(_, _, _)
SplitBeforePageOf(s, U, p) ==
    LET Cut(q) == IF q < 0 THEN <<Slice(s, p, Len(s))>>
                  ELSE <<Slice(s, p, q)>> \o SplitBeforePageOf(s, U, q)
    IN Cut(FirstOf({q \in (p + 1)..(Len(s) - 1) : PageOfAt(s, U, q)}))

\* `${x.page}` for a page number up to 10
PageNumber(n) == IF n < 10 THEN Ch("0123456789", n) ELSE "10"

\* pages.map(x => `\n\n=== PAGE ${x.page} ===\n${x.text}`).join("") for the
\* first take chunks, from chunk k
RECURSIVE JoinPages(_, _, _)
JoinPages(chunks, take, k) ==
    IF k > take THEN ""
    ELSE "\n\n=== PAGE " \o PageNumber(k) \o " ===\n" \o chunks[k]
         \o JoinPages(chunks, take, k + 1)

\* the rawText, pages and extractedPages that buildPagedText returns
buildPagedText(fullText, maxPages) ==
    LET Paged(chunks, take) ==
            [rawText |-> JoinPages(chunks, take, 1),
             pages |-> [i \in 1..take |-> [page |-> i, text |-> chunks[i]]],
             extractedPages |-> take]
        Take(chunks) == Paged(chunks, IF Len(chunks) < maxPages THEN Len(chunks) ELSE maxPages)
        Single(text) == [rawText |-> "\n\n=== PAGE 1 ===\n" \o text,
                         pages |-> <<[page |-> 1, text |-> text]>>,
                         extractedPages |-> 1]
        Markers(text, markerChunks) ==
            IF Len(markerChunks) >= 2 THEN Take(markerChunks) ELSE Single(text)
        FormFeeds(text, ffChunks) ==
            IF Len(ffChunks) >= 2 THEN Take(ffChunks)
            ELSE Markers(text, TrimAndDropEmpty(SplitBeforePageOf(text, ToUpperCase(text), 0), 1))
        Trimmed(text) == FormFeeds(text, TrimAndDropEmpty(SplitFormFeeds(text, 0), 1))
    IN Trimmed(Trim(fullText))

(***************************************************************************)
(* Specification of the isolate: MaxRequests requests are served by one    *)
(* fetch handler each; a handler gives up control at its two awaits and    *)
(* runs parseLaiEventBrief to its end without interruption.  The only      *)
(* object of a call that is left in a state other than its initial one is  *)
(* nextCapsLabelRe.                                                        *)
(***************************************************************************)
\* the record parseLaiEventBrief returns for rawText when its nextCapsLabelRe
\* enters the sites loop with the given lastIndex
parseLaiEventBriefEntering(rawText, lastIndex) ==
    LET Schedule(scheduleBlock) ==
            IF Truthy(scheduleBlock)
            THEN [flights |-> parseFlights(scheduleBlock[1]), raw |-> scheduleBlock]
            ELSE Null
        Record(booking, map, hdr, block, ss, cs) ==
            [bookingNumber |-> booking,
             header |-> hdr,
             sites |-> ss,
             contacts |-> cs,
             schedule |-> Schedule(FirstSpanOrNull(map, "SCHEDULE OF EVENTS")),
             sections |-> [contactInformation |-> OrNull(block),
                           eventDetails |-> FirstSpanOrNull(map, "EVENT DETAILS"),
                           clientDetails |-> FirstSpanOrNull(map, "CLIENT DETAILS"),
                           talentIntroduction |-> FirstSpanOrNull(map, "TALENT INTRODUCTION")],
             confidence |-> computeConfidence(
                                [bookingNumber |-> booking,
                                 talentName |-> hdr.talentName,
                                 clientName |-> hdr.clientName,
                                 eventTitle |-> hdr.eventTitle,
                                 eventDateText |-> hdr.eventDateText,
                                 sites |-> ss,
                                 contacts |-> cs])]
        Blocks(booking, map, hdr, block) ==
            Record(booking, map, hdr, block, parseSitesEntering(block, lastIndex),
                   parseContactsFromContactInfo(block))
        Split(text, map) ==
            Blocks(MatchBooking(text), map, parseHeaderBlock(matchHeaderBlock(text)),
                   FirstSpanOrEmpty(map, "CONTACT INFORMATION"))
        Canonical(text) == Split(text, splitByHeadingsMulti(text, Headings))
    IN Canonical(normalize(rawText))

\* lastIndex of that nextCapsLabelRe when the call returns
lastIndexAfterBrief(rawText, lastIndex) ==
    lastIndexAfterSites(
        FirstSpanOrEmpty(splitByHeadingsMulti(normalize(rawText), Headings),
                         "CONTACT INFORMATION"),
        lastIndex)

Requests == 1..MaxRequests

IsolateTexts ==
    {"CONTACT INFORMATION\nEVENT SITE: Hall\nCLIENT ONSITE CONTACT: Al B, Mgr\n",
     "CONTACT INFORMATION\nEVENT SITE: A\nTALENT CONTACT: Tom\n",
     "CONTACT INFORMATION\nHOTEL SITE: Inn\nNights: 2\nEVENT SITE: Hall\nTALENT CONTACT: Tom\n",
     "Booking # 999999\n"}

InitIsolate ==
    /\ pc = [r \in Requests |-> "reading"]
    /\ input \in [Requests -> IsolateTexts]
    /\ output = [r \in Requests |-> Null]
    /\ prevOutput = Null
    /\ NoParse

\* const pdfBytes = await readPdfBytes(request, ct, log)
ReadBody(r) ==
    /\ pc[r] = "reading"
    /\ pc' = [pc EXCEPT ![r] = "extracting"]
    /\ UNCHANGED <<workerVars, input, output, prevOutput, parseVars>>

\* const result = await extractText(pdfBytes); ... parseLaiEventBrief(rawText)
ExtractAndParse(r) ==
    /\ pc[r] = "extracting"
    /\ output' = [output EXCEPT
                    ![r] = parseLaiEventBriefEntering(input[r], RegExpLiteral(nextCapsLabelRe))]
    /\ nextCapsLabelRe' = lastIndexAfterBrief(input[r], RegExpLiteral(nextCapsLabelRe))
    /\ pc' = [pc EXCEPT ![r] = "done"]
    /\ UNCHANGED <<workerVars, input, prevOutput, t, bookingNumber, sectionMap, header, sites, contacts,
                   schedule>>

NextIsolate == \E r \in Requests : ReadBody(r) \/ ExtractAndParse(r)

SpecIsolate == InitIsolate /\ [][NextIsolate]_vars

(***************************************************************************)
(* Specification of parseFlights: the schedule block is the canonical form *)
(* of a concatenation of at most MaxFrags schedule fragments.              *)
(***************************************************************************)
FlightFrags ==
    {"AA 1234 at 9am\n", "Delta Air Lines #123 Seat 4B\n", "United Club 12\n",
     "\n", "returns ", "=== PAGE 10 ===\n"}

ScheduleBlocks == {normalize(x) : x \in Concats(FlightFrags, MaxFrags)} \ {""}

InitFlights ==
    /\ pc = "call"
    /\ input \in ScheduleBlocks
    /\ output = <<>>
    /\ prevOutput = <<>>
    /\ NoParse

\* const flights = scheduleBlock ? parseFlights(scheduleBlock) : []
CallParseFlights ==
    /\ pc = "call"
    /\ output' = parseFlights(input)
    /\ pc' = "returned"
    /\ UNCHANGED <<workerVars, input, prevOutput, parseVars>>

NextFlights == CallParseFlights

SpecFlights == InitFlights /\ [][NextFlights]_vars

(***************************************************************************)
(* Specification of the paging of an extracted text: the text is the       *)
(* canonical form of at most MaxFrags page fragments, cut into at most     *)
(* maxPages pages and then split by headings.                              *)
(***************************************************************************)
PageFrags ==
    {"CONTACT INFORMATION\nEVENT SITE", ": Hall\n", "\f",
     "CONTACT INFORMATION\nLEADING AUTHORITIES", "CONTACTS: Al B, Mgr\n",
     "Page 2 of 2\n", "EVENT DETAILS\nb1\n"}

\* const fullText = normalize(result.text || "")
FullTexts == {normalize(x) : x \in Concats(PageFrags, MaxFrags)}

InitPaged ==
    /\ pc = "extracted"
    /\ input \in [fullText : FullTexts, maxPages : 1..MaxPages]
    /\ output = Null
    /\ prevOutput = Null
    /\ NoParse

\* const paged = buildPagedText(fullText, maxPages)
CallBuildPagedText ==
    /\ pc = "extracted"
    /\ output' = buildPagedText(input.fullText, input.maxPages)
    /\ pc' = "paged"
    /\ UNCHANGED <<workerVars, input, prevOutput, parseVars>>

\* parseLaiEventBrief(rawText), up to the split by headings
SplitPagedText ==
    /\ pc = "paged"
    /\ t' = normalize(output.rawText)
    /\ sectionMap' = splitByHeadingsMulti(normalize(output.rawText), Headings)
    /\ pc' = "split"
    /\ UNCHANGED <<workerVars, input, output, prevOutput, bookingNumber, header, sites, contacts,
                   schedule, nextCapsLabelRe>>

NextPaged == CallBuildPagedText \/ SplitPagedText

SpecPaged == InitPaged /\ [][NextPaged]_vars

(***************************************************************************)
(* Specification of parseSitesFromContactInfo: the contact block is the    *)
(* canonical, trimmed form of at most MaxFrags contact fragments.          *)
(***************************************************************************)
SiteFrags ==
    {"EVENT/HOTEL SITE: Inn\n1 Main St\nPhone: (555) 123\n",
     "EVENT SITE: Hall A\nCLIENT ONSITE CONTACT: Al\n",
     "HOTEL SITE: Inn\n",
     "TALENT CONTACT: Tom\n",
     "Phone: (555) 123\n",
     "Nights: 2\n"}

ContactBlocks == {normalize(x) : x \in Concats(SiteFrags, MaxFrags)}

InitSites ==
    /\ pc = "call"
    /\ input \in ContactBlocks
    /\ output = Null
    /\ prevOutput = Null
    /\ NoParse

\* const sites = parseSitesFromContactInfo(contactBlock)
CallParseSites ==
    /\ pc = "call"
    /\ sites' = parseSitesFromContactInfo(input)
    /\ nextCapsLabelRe' = lastIndexAfterSites(input, 0)
    /\ pc' = "returned"
    /\ UNCHANGED <<workerVars, input, output, prevOutput, t, bookingNumber, sectionMap, header,
                   contacts, schedule>>

NextSites == CallParseSites

SpecSites == InitSites /\ [][NextSites]_vars

(***************************************************************************)
(* Specification of parsePeopleList: the text is the canonical form of at  *)
(* most MaxFrags lines of a contacts sub-block, parsed for one of the      *)
(* people groups.                                                          *)
(***************************************************************************)
PeopleFrags ==
    {"Al B, Mgr\n", "Cy D, VP\n", "Office: 5551234\n", "ed f, dir\n", "Bo,\n", "Ann\n"}

PeopleTexts == {normalize(x) : x \in Concats(PeopleFrags, MaxFrags)}

PeopleGroups == {"client_onsite", "lai_onsite", "lai_contacts"}

InitPeople ==
    /\ pc = "call"
    /\ input \in PeopleTexts
    /\ output = Null
    /\ prevOutput = Null
    /\ NoParse

\* out.push(...parsePeopleList(ch.text, ch.group))
CallParsePeopleList ==
    /\ pc = "call"
    /\ \E group \in PeopleGroups : contacts' = parsePeopleList(input, group)
    /\ pc' = "returned"
    /\ UNCHANGED <<workerVars, input, output, prevOutput, t, bookingNumber, sectionMap, header, sites,
                   schedule, nextCapsLabelRe>>

NextPeople == CallParsePeopleList

SpecPeople == InitPeople /\ [][NextPeople]_vars

(***************************************************************************)
(* Specification of parseTalentContacts: the text is the canonical form of *)
(* at most MaxFrags lines of a TALENT CONTACT sub-block.                   *)
(***************************************************************************)
TalentFrags ==
    {"Tom\n", "Tom (will be accompanied by Ann)\n", "Tom's Cell: 555-1111\n",
     "Ann's Cell: 555-2222\n", "Cell: 555-3333\n"}

TalentTexts == {normalize(x) : x \in Concats(TalentFrags, MaxFrags)}

InitTalent ==
    /\ pc = "call"
    /\ input \in TalentTexts
    /\ output = Null
    /\ prevOutput = Null
    /\ NoParse

\* if (ch.group === "talent") out.push(...parseTalentContacts(ch.text))
CallParseTalentContacts ==
    /\ pc = "call"
    /\ contacts' = parseTalentContacts(input)
    /\ pc' = "returned"
    /\ UNCHANGED <<workerVars, input, output, prevOutput, t, bookingNumber, sectionMap, header, sites,
                   schedule, nextCapsLabelRe>>

NextTalent == CallParseTalentContacts

SpecTalent == InitTalent /\ [][NextTalent]_vars

(***************************************************************************)
(* Specification of the PDFium worker (src/worker.js): MaxRequests         *)
(* requests are handled concurrently in one isolate; every await is a      *)
(* point where another request or the initialisation may run.              *)
(***************************************************************************)
WorkerRequests ==
    {[method |-> "GET", path |-> "/", body |-> "short"],
     [method |-> "GET", path |-> "/api/extract-all", body |-> "pdf"],
     [method |-> "POST", path |-> "/", body |-> "pdf"],
     [method |-> "POST", path |-> "/api/extract-all", body |-> "short"],
     [method |-> "POST", path |-> "/api/extract-all", body |-> "pdf"],
     [method |-> "POST", path |-> "/api/extract-all", body |-> "corrupt"]}

\* json(obj, status)
json(ok, error, status) == [status |-> status, ok |-> ok, error |-> error]

\* new Response("OK"), new Response("Not found", { status: 404 })
Response(body, status) == [status |-> status, body |-> body]

\* a test that never finds the promise, so that every call initialises again
NeverCached(p) == FALSE

\* if (_pdfiumPromise): a promise object is truthy, pending or settled
IsCached(p) == p # Null

\* a request that is not inside getPdfium's promise
At(pos) == [at |-> pos, promise |-> 0, found |-> "none"]

InitPdfium ==
    /\ pc = [r \in Requests |-> At("start")]
    /\ input \in [Requests -> WorkerRequests]
    /\ output = [r \in Requests |-> <<>>]
    /\ prevOutput = Null
    /\ NoParse

\* the handler up to its first await, or to its response
Dispatch(r) ==
    /\ pc[r].at = "start"
    /\ IF input[r].method = "GET" /\ input[r].path = "/"
       THEN /\ output' = [output EXCEPT ![r] = Append(@, Response("OK", 200))]
            /\ pc' = [pc EXCEPT ![r] = At("done")]
       ELSE IF input[r].method = "POST" /\ input[r].path = "/api/extract-all"
       THEN /\ pc' = [pc EXCEPT ![r] = At("readPdfBytes")]
            /\ UNCHANGED output
       ELSE /\ output' = [output EXCEPT ![r] = Append(@, Response("Not found", 404))]
            /\ pc' = [pc EXCEPT ![r] = At("done")]
    /\ UNCHANGED <<workerVars, input, prevOutput, parseVars>>

\* await readPdfBytes(...) settles; the handler runs on into getPdfium(), which
\* returns the cached promise or starts the initialisation up to its fetch
ReadSettlesAndGetPdfium(r) ==
    /\ pc[r].at = "readPdfBytes"
    /\ \E outcome \in {"bytes", "throws"} :
          IF outcome = "throws"
          THEN /\ output' = [output EXCEPT ![r] = Append(@, json(FALSE, "extract_failed", 500))]
               /\ pc' = [pc EXCEPT ![r] = At("done")]
               /\ UNCHANGED <<pdfiumPromise, pdfiumInit, wasmFetches>>
          ELSE IF input[r].body = "short"
          THEN /\ output' = [output EXCEPT ![r] = Append(@, json(FALSE, "empty_body", 400))]
               /\ pc' = [pc EXCEPT ![r] = At("done")]
               /\ UNCHANGED <<pdfiumPromise, pdfiumInit, wasmFetches>>
          ELSE IF IsCached(pdfiumPromise)
          THEN /\ pc' = [pc EXCEPT ![r] = [at |-> "getPdfium", promise |-> pdfiumPromise[1],
                                           found |-> pdfiumInit[pdfiumPromise[1]]]]
               /\ UNCHANGED <<output, pdfiumPromise, pdfiumInit, wasmFetches>>
          ELSE /\ pdfiumInit' = Append(pdfiumInit, "fetch")
               /\ wasmFetches' = wasmFetches + 1
               /\ pdfiumPromise' = Some(Len(pdfiumInit'))
               /\ pc' = [pc EXCEPT ![r] = [at |-> "getPdfium", promise |-> Len(pdfiumInit'),
                                           found |-> "created"]]
               /\ UNCHANGED output
    /\ UNCHANGED <<input, prevOutput, parseVars, heap, pdfjsPromise, pageCap>>

\* const r = await fetch(PDFIUM_WASM_URL); if (!r.ok) throw
WasmFetchSettles(p) ==
    /\ pdfiumInit[p] = "fetch"
    /\ \E outcome \in {"ok", "not ok", "throws"} :
          pdfiumInit' = [pdfiumInit EXCEPT ![p] = IF outcome = "ok" THEN "arrayBuffer"
                                                  ELSE "rejected"]
    /\ UNCHANGED <<pc, input, output, prevOutput, parseVars, pdfiumPromise, wasmFetches, heap,
                   pdfjsPromise, pageCap>>

\* const wasmBinary = await r.arrayBuffer()
WasmArrayBufferSettles(p) ==
    /\ pdfiumInit[p] = "arrayBuffer"
    /\ \E outcome \in {"ok", "throws"} :
          pdfiumInit' = [pdfiumInit EXCEPT ![p] = IF outcome = "ok" THEN "init" ELSE "rejected"]
    /\ UNCHANGED <<pc, input, output, prevOutput, parseVars, pdfiumPromise, wasmFetches, heap,
                   pdfjsPromise, pageCap>>

\* const pdfium = await init({ wasmBinary }); pdfium.PDFiumExt_Init(); return pdfium
WasmInitSettles(p) ==
    /\ pdfiumInit[p] = "init"
    /\ \E outcome \in {"ok", "throws"} :
          pdfiumInit' = [pdfiumInit EXCEPT ![p] = IF outcome = "ok" THEN "fulfilled"
                                                  ELSE "rejected"]
    /\ UNCHANGED <<pc, input, output, prevOutput, parseVars, pdfiumPromise, wasmFetches, heap,
                   pdfjsPromise, pageCap>>

\* const pdfium = await getPdfium() settles: the handler goes on to
\* await extractPagesTextPdfium(...), or its catch block answers
ResumeWithPdfium(r) ==
    /\ pc[r].at = "getPdfium"
    /\ pdfiumInit[pc[r].promise] \in {"fulfilled", "rejected"}
    /\ IF pdfiumInit[pc[r].promise] = "rejected"
       THEN /\ output' = [output EXCEPT ![r] = Append(@, json(FALSE, "extract_failed", 500))]
            /\ pc' = [pc EXCEPT ![r].at = "done"]
       ELSE /\ pc' = [pc EXCEPT ![r].at = "extract"]
            /\ UNCHANGED output
    /\ UNCHANGED <<workerVars, input, prevOutput, parseVars>>

\* await extractPagesTextPdfium(...) settles; parseLaiEventBrief(rawText); return json(res)
ExtractSettles(r) ==
    /\ pc[r].at = "extract"
    /\ IF input[r].body = "corrupt"
       THEN output' = [output EXCEPT ![r] = Append(@, json(FALSE, "extract_failed", 500))]
       ELSE output' = [output EXCEPT ![r] = Append(@, json(TRUE, "", 200))]
    /\ pc' = [pc EXCEPT ![r].at = "done"]
    /\ UNCHANGED <<workerVars, input, prevOutput, parseVars>>

NextPdfium ==
    \/ \E r \in Requests : Dispatch(r)
    \/ \E r \in Requests : ReadSettlesAndGetPdfium(r)
    \/ \E p \in DOMAIN pdfiumInit : WasmFetchSettles(p)
    \/ \E p \in DOMAIN pdfiumInit : WasmArrayBufferSettles(p)
    \/ \E p \in DOMAIN pdfiumInit : WasmInitSettles(p)
    \/ \E r \in Requests : ResumeWithPdfium(r)
    \/ \E r \in Requests : ExtractSettles(r)

SpecPdfium == InitPdfium /\ [][NextPdfium]_vars

(***************************************************************************)
(* Specification of extractPagesTextPdfium (src/worker.js): one call on a  *)
(* document of up to MaxPages + 1 pages; every PDFium call that reports    *)
(* failure by its return value may do so. heap maps each handle the call   *)
(* acquired to the number of times it was released and whether it was      *)
(* passed to PDFium after its release.                                     *)
(***************************************************************************)
Handle(kind, i) == [kind |-> kind, page |-> i]

\* malloc, FPDF_LoadMemDocument, FPDF_LoadPage, FPDFText_LoadPage returning a handle
Acquire(h, hp) == (h :> [released |-> 0, usedAfterRelease |-> FALSE]) @@ hp

\* a handle passed to a PDFium call or read from the WASM memory
Use(h, hp) == [hp EXCEPT ![h].usedAfterRelease = @ \/ hp[h].released > 0]

\* free, FPDF_CloseDocument, FPDF_ClosePage, FPDFText_ClosePage
Release(h, hp) == [hp EXCEPT ![h].released = @ + 1]

\* a finally block that does not run
SkipFinally(i, hp) == hp

\* finally { pdfium.pdfium.wasmExports.free(textBufferPtr); }
FinallyTextBuffer(i, hp) == Release(Handle("textBuffer", i), hp)

\* finally { pdfium.FPDFText_ClosePage(textPagePtr); }
FinallyTextPage(i, hp) == Release(Handle("textPage", i), Use(Handle("textPage", i), hp))

\* finally { pdfium.FPDF_ClosePage(pagePtr); }
FinallyPage(i, hp) == Release(Handle("page", i), Use(Handle("page", i), hp))

\* finally { pdfium.FPDF_CloseDocument(docPtr); pdfium.pdfium.wasmExports.free(filePtr); }
FinallyDocument(hp) ==
    Release(Handle("file", 0), Release(Handle("doc", 0), Use(Handle("doc", 0), hp)))

\* Math.min(totalPages, maxPages)
pagesToRead(totalPages, maxPages) == IF totalPages < maxPages THEN totalPages ELSE maxPages

ExtractAt(pos, i) == [at |-> pos, i |-> i]

InitExtract ==
    /\ pc = ExtractAt("start", 0)
    /\ input \in [totalPages : 0..(MaxPages + 1), maxPages : 1..MaxPages]
    /\ output = <<>>
    /\ prevOutput = Null
    /\ NoParse

\* lines 188-200: the file buffer is allocated and filled, the document is
\* loaded; without a document the buffer is freed and the call throws
LoadMemDocument ==
    /\ pc.at = "start"
    /\ \E docPtr \in {0, 1} :
          LET filled == Use(Handle("file", 0), Acquire(Handle("file", 0), heap))
              loaded == Use(Handle("file", 0), filled)
          IN IF docPtr = 0
             THEN /\ heap' = Release(Handle("file", 0), loaded)
                  /\ pc' = ExtractAt("thrown", 0)
             ELSE /\ heap' = Acquire(Handle("doc", 0), loaded)
                  /\ pc' = ExtractAt("loop", 0)
    /\ UNCHANGED <<input, output, prevOutput, parseVars, pdfiumPromise, pdfiumInit, wasmFetches,
                   pdfjsPromise, pageCap>>

\* lines 208-212 and 256-261: the loop test; the next page is loaded, or the
\* call throws without a page, or the loop is over and the call returns
LoadPage ==
    /\ pc.at = "loop"
    /\ IF pc.i < pagesToRead(input.totalPages, input.maxPages)
       THEN \E pagePtr \in {0, 1} :
               LET used == Use(Handle("doc", 0), heap)
               IN IF pagePtr = 0
                  THEN /\ heap' = FinallyDocument(used)
                       /\ pc' = ExtractAt("thrown", pc.i)
                  ELSE /\ heap' = Acquire(Handle("page", pc.i), used)
                       /\ pc' = ExtractAt("page", pc.i)
       ELSE /\ heap' = FinallyDocument(Use(Handle("doc", 0), heap))
            /\ pc' = ExtractAt("returned", pc.i)
    /\ UNCHANGED <<input, output, prevOutput, parseVars, pdfiumPromise, pdfiumInit, wasmFetches,
                   pdfjsPromise, pageCap>>

\* lines 215-219: the text page is loaded; without one the page is empty
TextLoadPage ==
    /\ pc.at = "page"
    /\ \E textPagePtr \in {0, 1} :
          LET used == Use(Handle("page", pc.i), heap)
          IN IF textPagePtr = 0
             THEN /\ output' = Append(output, [page |-> pc.i + 1, text |-> ""])
                  /\ heap' = FinallyPage(pc.i, used)
                  /\ pc' = ExtractAt("loop", pc.i + 1)
             ELSE /\ heap' = Acquire(Handle("textPage", pc.i), used)
                  /\ pc' = ExtractAt("textPage", pc.i)
                  /\ UNCHANGED output
    /\ UNCHANGED <<input, prevOutput, parseVars, pdfiumPromise, pdfiumInit, wasmFetches,
                   pdfjsPromise, pageCap>>

\* lines 222-230: the characters are counted; a page without characters is
\* empty, for any other page the text buffer is allocated
CountChars ==
    /\ pc.at = "textPage"
    /\ \E charCount \in {-1, 0, 1} :
          LET used == Use(Handle("textPage", pc.i), heap)
          IN IF charCount <= 0
             THEN /\ output' = Append(output, [page |-> pc.i + 1, text |-> ""])
                  /\ heap' = FinallyPage(pc.i, FinallyTextPage(pc.i, used))
                  /\ pc' = ExtractAt("loop", pc.i + 1)
             ELSE /\ heap' = Acquire(Handle("textBuffer", pc.i), used)
                  /\ pc' = ExtractAt("textBuffer", pc.i)
                  /\ UNCHANGED output
    /\ UNCHANGED <<input, prevOutput, parseVars, pdfiumPromise, pdfiumInit, wasmFetches,
                   pdfjsPromise, pageCap>>

\* lines 233-253: the text is copied to the buffer and read from it; the
\* three finally blocks run
GetText ==
    /\ pc.at = "textBuffer"
    /\ \E extractedLength \in {0, 2} :
          LET copied == Use(Handle("textBuffer", pc.i), Use(Handle("textPage", pc.i), heap))
              read == IF extractedLength > 0 THEN Use(Handle("textBuffer", pc.i), copied)
                      ELSE copied
          IN /\ output' = Append(output, [page |-> pc.i + 1,
                                          text |-> IF extractedLength > 0 THEN "a" ELSE ""])
             /\ heap' = FinallyPage(pc.i, FinallyTextPage(pc.i, FinallyTextBuffer(pc.i, read)))
             /\ pc' = ExtractAt("loop", pc.i + 1)
    /\ UNCHANGED <<input, prevOutput, parseVars, pdfiumPromise, pdfiumInit, wasmFetches,
                   pdfjsPromise, pageCap>>

NextExtract == LoadMemDocument \/ LoadPage \/ TextLoadPage \/ CountChars \/ GetText

SpecExtract == InitExtract /\ [][NextExtract]_vars

(***************************************************************************)
(* Specification of the pdf.js variant of the worker (part_001, second     *)
(* fetch handler): MaxRequests concurrent requests; a rejected await in    *)
(* the handler leaves it without a response.                               *)
(***************************************************************************)
InitPdfjs ==
    /\ pc = [r \in Requests |-> At("start")]
    /\ input \in [Requests -> WorkerRequests]
    /\ output = [r \in Requests |-> <<>>]
    /\ prevOutput = Null
    /\ NoParse

\* the handler up to await request.arrayBuffer(), or to its response
PdfjsDispatch(r) ==
    /\ pc[r].at = "start"
    /\ IF input[r].method = "GET" /\ input[r].path = "/"
       THEN /\ output' = [output EXCEPT ![r] = Append(@, Response("OK", 200))]
            /\ pc' = [pc EXCEPT ![r] = At("done")]
       ELSE IF input[r].method = "POST" /\ input[r].path = "/api/extract-all"
       THEN /\ pc' = [pc EXCEPT ![r] = At("arrayBuffer")]
            /\ UNCHANGED output
       ELSE /\ output' = [output EXCEPT ![r] = Append(@, Response("Not found", 404))]
            /\ pc' = [pc EXCEPT ![r] = At("done")]
    /\ UNCHANGED <<workerVars, input, prevOutput, parseVars>>

\* await request.arrayBuffer() settles; a body of 10 bytes or more goes on
\* into getPdfjs(), which starts the import unless its promise is cached
PdfjsBodySettles(r) ==
    /\ pc[r].at = "arrayBuffer"
    /\ \E outcome \in {"bytes", "throws"} :
          IF outcome = "throws"
          THEN /\ pc' = [pc EXCEPT ![r] = At("escaped")]
               /\ UNCHANGED <<output, pdfjsPromise>>
          ELSE IF input[r].body = "short"
          THEN /\ output' = [output EXCEPT ![r] = Append(@, json(FALSE, "empty_body", 400))]
               /\ pc' = [pc EXCEPT ![r] = At("done")]
               /\ UNCHANGED pdfjsPromise
          ELSE /\ pdfjsPromise' = IF pdfjsPromise # Null THEN pdfjsPromise ELSE Some("pending")
               /\ pc' = [pc EXCEPT ![r] = At("getPdfjs")]
               /\ UNCHANGED output
    /\ UNCHANGED <<input, prevOutput, parseVars, pdfiumPromise, pdfiumInit, wasmFetches, heap,
                   pageCap>>

\* import("pdfjs-dist/legacy/build/pdf.mjs") settles
PdfjsImportSettles ==
    /\ pdfjsPromise = Some("pending")
    /\ \E outcome \in {"fulfilled", "rejected"} : pdfjsPromise' = Some(outcome)
    /\ UNCHANGED <<pc, input, output, prevOutput, parseVars, pdfiumPromise, pdfiumInit,
                   wasmFetches, heap, pageCap>>

\* const pdfjsLib = await getPdfjs() settles; pdfjsLib.getDocument(...) is called
PdfjsResume(r) ==
    /\ pc[r].at = "getPdfjs"
    /\ pdfjsPromise \in {Some("fulfilled"), Some("rejected")}
    /\ pc' = [pc EXCEPT ![r] = IF pdfjsPromise = Some("rejected") THEN At("escaped")
                               ELSE At("getDocument")]
    /\ UNCHANGED <<workerVars, input, output, prevOutput, parseVars>>

\* const pdf = await loadingTask.promise settles
PdfjsDocumentSettles(r) ==
    /\ pc[r].at = "getDocument"
    /\ pc' = [pc EXCEPT ![r] = IF input[r].body = "corrupt" THEN At("escaped")
                               ELSE At("extractAllPagesText")]
    /\ UNCHANGED <<workerVars, input, output, prevOutput, parseVars>>

\* await extractAllPagesText(pdf) settles; parseLaiEventBrief(rawText); return json(...)
PdfjsExtractSettles(r) ==
    /\ pc[r].at = "extractAllPagesText"
    /\ \E outcome \in {"text", "throws"} :
          IF outcome = "throws"
          THEN /\ pc' = [pc EXCEPT ![r] = At("escaped")]
               /\ UNCHANGED output
          ELSE /\ output' = [output EXCEPT ![r] = Append(@, json(TRUE, "", 200))]
               /\ pc' = [pc EXCEPT ![r] = At("done")]
    /\ UNCHANGED <<workerVars, input, prevOutput, parseVars>>

NextPdfjs ==
    \/ \E r \in Requests : PdfjsDispatch(r)
    \/ \E r \in Requests : PdfjsBodySettles(r)
    \/ PdfjsImportSettles
    \/ \E r \in Requests : PdfjsResume(r)
    \/ \E r \in Requests : PdfjsDocumentSettles(r)
    \/ \E r \in Requests : PdfjsExtractSettles(r)

SpecPdfjs == InitPdfjs /\ [][NextPdfjs]_vars

(***************************************************************************)
(* Specification of the page cap: the fetch handler clamps the maxPages    *)
(* query parameter and buildPagedText cuts the extracted text into pages.  *)
(***************************************************************************)
\* Number(v) for null and for decimal literals: whether the number is finite
\* and its Math.floor; any other string is NaN
NumberOf(v) ==
    LET Finite(n) == [finite |-> TRUE, floor |-> n]
        NotFinite == [finite |-> FALSE, floor |-> 0]
        Fraction(s, e) ==
            IF Ch(s, e) = "." /\ RunEnd(s, e + 1, DigitChars) = Len(s)
            THEN RunEnd(s, e + 1, {"0"}) < Len(s)
            ELSE FALSE
        Decimal(s, neg, d, e) ==
            IF e = d /\ ~(Ch(s, e) = "." /\ Len(s) > e + 1) THEN NotFinite
            ELSE IF e = Len(s) \/ (Ch(s, e) = "." /\ RunEnd(s, e + 1, DigitChars) = Len(s))
            THEN LET whole == ToNumber(Slice(s, d, e), e - d)
                 IN IF ~neg THEN Finite(whole)
                    ELSE IF Fraction(s, e) THEN Finite(0 - whole - 1)
                    ELSE Finite(0 - whole)
            ELSE NotFinite
        Signed(s, neg, d) ==
            IF Slice(s, d, Len(s)) = "Infinity" THEN NotFinite
            ELSE Decimal(s, neg, d, RunEnd(s, d, DigitChars))
        Literal(s) ==
            IF s = "" THEN Finite(0)
            ELSE IF Ch(s, 0) = "-" THEN Signed(s, TRUE, 1)
            ELSE IF Ch(s, 0) = "+" THEN Signed(s, FALSE, 1)
            ELSE Signed(s, FALSE, 0)
    IN IF v = Null THEN Finite(0) ELSE Literal(Trim(v[1]))

\* Math.floor(n) without the clamp to min..max
clampIntUnclamped(v, min, max, def) ==
    IF ~NumberOf(v).finite THEN def ELSE NumberOf(v).floor

\* clampInt(v, min, max, def)
clampInt(v, min, max, def) ==
    LET Clamp(n) ==
            IF ~n.finite THEN def
            ELSE LET lower == IF max < n.floor THEN max ELSE n.floor
                 IN IF min > lower THEN min ELSE lower
    IN Clamp(NumberOf(v))

\* qp.get("maxPages"): null when the parameter is absent
MaxPagesParams ==
    {Null, Some(""), Some("abc"), Some("2x"), Some("Infinity"), Some("0"), Some("1"),
     Some("2"), Some(" 3 "), Some("2.7"), Some("-3"), Some("-0.5"), Some("10"), Some("11"),
     Some("99"), Some("+4")}

\* texts of no page, of one page, and of 2, 3 and 11 pages
CapTexts ==
    {"", "a", "a\fb", "a\f\fb\fc\n", "\fa\f",
     "Page 1 of 3\na\nPage 2 of 3\nb\nPage 3 of 3\nc",
     "a\fb\fc\fd\fe\ff\fg\fh\fi\fj\fk"}

InitCap ==
    /\ pc = "start"
    /\ input \in [maxPages : MaxPagesParams, text : CapTexts]
    /\ output = Null
    /\ prevOutput = Null
    /\ NoParse

\* const maxPages = clampInt(qp.get("maxPages"), 1, 10, 1)
ClampMaxPages ==
    /\ pc = "start"
    /\ pageCap' = clampInt(input.maxPages, 1, 10, 1)
    /\ pc' = "clamped"
    /\ UNCHANGED <<input, output, prevOutput, parseVars, pdfiumPromise, pdfiumInit,
                   wasmFetches, heap, pdfjsPromise>>

\* const fullText = normalize(String(result?.text || ""));
\* const { rawText, pages, extractedPages } = buildPagedText(fullText, maxPages)
PageExtractedText ==
    /\ pc = "clamped"
    /\ output' = buildPagedText(normalize(input.text), pageCap)
    /\ pc' = "paged"
    /\ UNCHANGED <<workerVars, input, prevOutput, parseVars>>

\* const parsed = parseLaiEventBrief(rawText), up to its canonical text
ParsePagedText ==
    /\ pc = "paged"
    /\ t' = normalize(output.rawText)
    /\ pc' = "parsed"
    /\ UNCHANGED <<workerVars, input, output, prevOutput, bookingNumber, sectionMap, header,
                   sites, contacts, schedule, nextCapsLabelRe>>

NextCap == ClampMaxPages \/ PageExtractedText \/ ParsePagedText

SpecCap == InitCap /\ [][NextCap]_vars

(***************************************************************************)
(* Claims                                                                  *)
(***************************************************************************)
\* C1: normalize is idempotent: for every input string, the empty string and
\* strings mixing spaces, tabs, carriage returns, form feeds and newlines
\* included, normalizing the result of normalize again returns it unchanged.
C1_NormalizeIdempotent ==
    pc = "renormalized" => output = prevOutput

\* a mixed-whitespace input that normalize changed and that was normalized twice
C1_Witness ==
    /\ pc = "renormalized"
    /\ input = " a\r\n "
    /\ prevOutput = "a"
    /\ prevOutput # input

BriefKeys ==
    {"bookingNumber", "header", "sites", "contacts", "schedule", "sections", "confidence"}

\* the statements of parseLaiEventBrief before its return; each Step action is
\* guarded by its label alone, so one of them can run in every such state
StepLabels ==
    {"normalize", "booking", "split", "header", "sites", "contacts", "schedule", "assemble"}

\* C2: parseLaiEventBrief never throws and always returns a ParsedBrief record:
\* the call is always at a statement that can run or at its return, never at a
\* throw, and what it returns is a record with the seven ParsedBrief keys whose
\* header is a record, whatever is missing or malformed in the text.
C2_ParseAlwaysReturns ==
    /\ pc \in StepLabels \cup {"done"}
    /\ pc = "done" =>
          /\ DOMAIN output = BriefKeys
          /\ DOMAIN output.header = DOMAIN NullHeader
          /\ output.confidence.overall \in 0..100

\* a text with no booking number, no divider, no heading and no label was parsed
C2_Witness ==
    /\ pc = "done"
    /\ input # ""
    /\ output.bookingNumber = Null
    /\ output.header = NullHeader
    /\ sectionMap = <<>>
    /\ output.schedule = Null

(***************************************************************************)
(* The heading occurrences of the canonical text t, counted from the text  *)
(* itself: every offset where a heading of the vocabulary matches.         *)
(***************************************************************************)
HeadingSet == {Headings[k] : k \in 1..Len(Headings)}
\* the offsets of t where heading h matches; U is t upper-cased
OccurrencesIn(U, h) == {i \in 0..Len(t) : HeadingAt(t, U, i, h)}
Occurrences(h) == OccurrencesIn(ToUpperCase(t), h)
NoRecognizedHeading ==
    LET U == ToUpperCase(t)
    IN \A h \in HeadingSet : OccurrencesIn(U, h) = {}
\* the k-th smallest element of S
KthOf(S, k) == CHOOSE i \in S : Cardinality({j \in S : j < i}) = k - 1
\* the substring of t from the end of the occurrence of h at offset i to the
\* start of the next heading occurrence, or to the end of t
BodyIn(U, h, i) ==
    Slice(t, i + Len(h),
          Min({j \in (i + 1)..Len(t) : \E g \in HeadingSet : HeadingAt(t, U, j, g)}
              \cup {Len(t)}))
Body(h, i) == BodyIn(ToUpperCase(t), h, i)
\* the body of the k-th occurrence of h
KthBody(U, h, k) == BodyIn(U, h, KthOf(OccurrencesIn(U, h), k))

\* C3: for a text with no recognized heading splitByHeadingsMulti returns an
\* empty mapping and the returned record has all four header fields absent, no
\* sites, no contacts, no schedule and no sections passthrough; a text that is
\* only a booking number yields that number and confidence.overall 14.
C3_NoHeadingAllAbsent ==
    (pc = "done" /\ NoRecognizedHeading) =>
          /\ sectionMap = <<>>
          /\ output.header.talentName = Null
          /\ output.header.clientName = Null
          /\ output.header.eventTitle = Null
          /\ output.header.eventDateText = Null
          /\ output.sites = <<>>
          /\ output.contacts = <<>>
          /\ output.schedule = Null
          /\ \A f \in DOMAIN output.sections : output.sections[f] = Null
          /\ t = "Booking # 999999" =>
                /\ output.bookingNumber = Some("999999")
                /\ output.confidence.overall = 14

\* C4: for every heading of the vocabulary, the list under that heading holds
\* exactly one span per case-insensitive word-boundary occurrence of the heading,
\* the k-th span being the body of the k-th occurrence in document order, and a
\* heading that never occurs has no key in the mapping.
C4_OneSpanPerOccurrence ==
    pc = "done" =>
        LET U == ToUpperCase(t)
        IN \A h \in HeadingSet :
               /\ (OccurrencesIn(U, h) = {}) <=> (h \notin DOMAIN sectionMap)
               /\ h \in DOMAIN sectionMap =>
                     /\ Len(sectionMap[h]) = Cardinality(OccurrencesIn(U, h))
                     /\ \A k \in 1..Len(sectionMap[h]) :
                           sectionMap[h][k] = Trim(KthBody(U, h, k))

\* a heading that appears twice, in different letter case, with distinct bodies
C4_Witness ==
    /\ pc = "done"
    /\ "EVENT DETAILS" \in DOMAIN sectionMap
    /\ sectionMap["EVENT DETAILS"] = <<"b1", "b2">>
    /\ "EVENT AGENDA" \notin DOMAIN sectionMap

\* the five passthroughs of the returned record, each with its heading
Passthroughs ==
    {<<"CONTACT INFORMATION", output.sections.contactInformation>>,
     <<"EVENT DETAILS", output.sections.eventDetails>>,
     <<"CLIENT DETAILS", output.sections.clientDetails>>,
     <<"TALENT INTRODUCTION", output.sections.talentIntroduction>>,
     <<"SCHEDULE OF EVENTS", IF output.schedule = Null THEN Null ELSE output.schedule.raw>>}

\* C5 as stated: every span and every passthrough present in the record equals
\* exactly the substring of the canonical text from the end of its heading
\* occurrence to the next heading occurrence, no character added or removed.
C5_SpansAreExactSubstrings ==
    pc = "done" =>
        LET U == ToUpperCase(t)
        IN /\ \A h \in DOMAIN sectionMap : \A k \in 1..Len(sectionMap[h]) :
                 /\ k <= Cardinality(OccurrencesIn(U, h))
                 /\ sectionMap[h][k] = KthBody(U, h, k)
           /\ \A p \in Passthroughs :
                 p[2] # Null =>
                    /\ OccurrencesIn(U, p[1]) # {}
                    /\ p[2][1] = KthBody(U, p[1], 1)

\* C5: every span equals the substring of the canonical text from the end of
\* its heading occurrence to the next heading occurrence with leading and
\* trailing whitespace removed and nothing else changed; every passthrough is
\* that trimmed substring for the first occurrence of its heading, and is absent
\* when the heading does not occur or the trimmed substring is empty.
C5_SpansAreTrimmedSubstrings ==
    pc = "done" =>
        LET U == ToUpperCase(t)
        IN /\ \A h \in DOMAIN sectionMap : \A k \in 1..Len(sectionMap[h]) :
                 /\ k <= Cardinality(OccurrencesIn(U, h))
                 /\ sectionMap[h][k] = Trim(KthBody(U, h, k))
           /\ \A p \in Passthroughs :
                 p[2] = IF OccurrencesIn(U, p[1]) = {} THEN Null
                        ELSE OrNull(Trim(KthBody(U, p[1], 1)))

\* a passthrough that differs from the untrimmed substring it was cut from
C5_Witness ==
    /\ pc = "done"
    /\ output.sections.eventDetails = Some("b1")
    /\ Occurrences("EVENT DETAILS") = {0}
    /\ Body("EVENT DETAILS", 0) = "\nb1"

\* every text the returned record holds verbatim
RetainedTexts ==
    {p[2][1] : p \in {q \in Passthroughs : q[2] # Null}}
    \cup (IF output.header.raw = Null THEN {} ELSE {output.header.raw[1]})
    \cup {output.sites[k].raw[1] : k \in 1..Len(output.sites)}
    \cup {output.contacts[k].raw[1] : k \in 1..Len(output.contacts)}
\* span occurs in a text the record holds
Retained(span) == \E x \in RetainedTexts : \E i \in 0..Len(x) : LitAt(x, i, span)

ContactHits == SortByIdx(AllLabelHits(contactBlock, ToUpperCase(contactBlock), labelDefs, 1))
ContactChunks == sliceLabeledChunks(contactBlock, labelDefs)
\* the label text of hit k: what the hit matched, up to its colon
LabelOf(hits, k) ==
    LET U == ToUpperCase(contactBlock)
    IN Trim(Slice(U, hits[k].idx, RunEndNot(U, hits[k].idx, {":"})))
\* the section holds exactly two blocks with content, they are identical, both
\* under a people label, and each is one person
TwoIdenticalBlocks(chunks) ==
    LET content == {k \in 1..Len(chunks) : chunks[k].text # ""}
    IN /\ Cardinality(content) = 2
       /\ \A k, l \in content : chunks[k].text = chunks[l].text
       /\ \A k \in content :
             /\ chunks[k].group # "talent"
             /\ Len(parsePeopleList(chunks[k].text, chunks[k].group)) = 1
DifferentLabels(chunks, hits) ==
    \E k, l \in {m \in 1..Len(chunks) : chunks[m].text # ""} :
        LabelOf(hits, k) # LabelOf(hits, l)
SameGroup(chunks) ==
    \A k, l \in {m \in 1..Len(chunks) : chunks[m].text # ""} :
        chunks[k].group = chunks[l].group

\* C7 as stated: two identical contact blocks under different contact labels of
\* the CONTACT INFORMATION section collapse to exactly one Contact.
C7_IdenticalBlocksCollapse ==
    pc = "done" =>
        LET chunks == ContactChunks
        IN (TwoIdenticalBlocks(chunks) /\ DifferentLabels(chunks, ContactHits))
               => Len(output.contacts) = 1

\* C7: two identical contact blocks collapse to exactly one Contact when their
\* labels belong to the same group (CLIENT ONSITE CONTACT and CLIENT ONSITE
\* CONTACTS), and stay two Contacts, one per group, when their labels belong to
\* different groups (CLIENT ONSITE CONTACT and LEADING AUTHORITIES ONSITE
\* CONTACT).
C7_IdenticalBlocksCollapseWithinGroup ==
    pc = "done" =>
        LET chunks == ContactChunks
        IN TwoIdenticalBlocks(chunks) =>
               IF SameGroup(chunks)
               THEN /\ Len(output.contacts) = 1
                    /\ output.contacts[1].group = chunks[1].group
               ELSE /\ Len(output.contacts) = 2
                    /\ output.contacts[1].group # output.contacts[2].group
                    /\ output.contacts[1].raw = output.contacts[2].raw

\* identical blocks under two different labels of one group became one Contact
C7_Witness ==
    /\ pc = "done"
    /\ TwoIdenticalBlocks(ContactChunks)
    /\ DifferentLabels(ContactChunks, ContactHits)
    /\ SameGroup(ContactChunks)
    /\ Len(output.contacts) = 1
    /\ output.contacts[1].name = Some("Al B")

\* list a is list b with some entries left out, the rest in the order of b
IsSubsequence(a, b) ==
    \E f \in [1..Len(a) -> 1..Len(b)] :
        /\ \A i, j \in 1..Len(a) : i < j => f[i] < f[j]
        /\ \A i \in 1..Len(a) : a[i] = b[f[i]]

\* C8: dedupeContacts returns an order-preserving subsequence of its input in
\* which no two entries share the composite key (lower-cased group, name and
\* email, digits-only cell and office), every key of the input is represented,
\* the entry kept for a key is the first input entry with that key, and
\* applying dedupeContacts to its own output changes nothing.
C8_DedupeByCompositeKey ==
    /\ pc \in {"returned", "rededuped"} =>
          LET in == IF pc = "returned" THEN input ELSE prevOutput
          IN /\ IsSubsequence(output, in)
             /\ \A i, j \in 1..Len(output) :
                   i # j => contactKeyParts(output[i]) # contactKeyParts(output[j])
             /\ \A i \in 1..Len(in) : \E j \in 1..Len(output) :
                   contactKeyParts(output[j]) = contactKeyParts(in[i])
             /\ \A j \in 1..Len(output) :
                   output[j] = in[Min({i \in 1..Len(in) :
                                  contactKeyParts(in[i]) = contactKeyParts(output[j])})]
    /\ pc = "rededuped" => output = prevOutput

OverallValues == <<0, 14, 29, 43, 57, 71, 86, 100>>
\* the number of present facts of x
PresentFacts(x) ==
    Cardinality({f \in ScalarFacts : x[f] # Null})
    + (IF x.sites # <<>> THEN 1 ELSE 0) + (IF x.contacts # <<>> THEN 1 ELSE 0)

\* C9: overall is round(100 * k / 7) for k the number of present facts among
\* bookingNumber, talentName, clientName, eventTitle, eventDateText, plus one
\* for a site and one for a contact, so one of 0, 14, 29, 43, 57, 71, 86, 100;
\* hasBookingNumber iff bookingNumber is present, hasHeader iff one of the four
\* header facts is, hasSites iff sites is non-empty, hasContacts iff contacts is.
C9_ConfidenceIsRoundedSeventh ==
    pc \in {"returned", "added"} =>
        LET k == PresentFacts(input)
        IN /\ output.overall = OverallValues[k + 1]
           /\ 2 * output.overall * 7 >= 2 * 100 * k - 7
           /\ 2 * output.overall * 7 < 2 * 100 * k + 7
           /\ output.hasBookingNumber <=> input.bookingNumber # Null
           /\ output.hasHeader <=>
                 \E f \in ScalarFacts \ {"bookingNumber"} : input[f] # Null
           /\ output.hasSites <=> input.sites # <<>>
           /\ output.hasContacts <=> input.contacts # <<>>

\* three of seven facts: two header facts and two sites, no booking number
C9_Witness ==
    /\ pc = "returned"
    /\ PresentFacts(input) = 3
    /\ Len(input.sites) = 2
    /\ input.bookingNumber = Null
    /\ output.overall = 43
    /\ output.hasHeader /\ output.hasSites /\ ~output.hasContacts

Flags == {"hasBookingNumber", "hasHeader", "hasSites", "hasContacts"}

\* C10: when one previously absent fact (booking number, a header fact, a first
\* site or a first contact) is added to an otherwise identical input, overall
\* does not decrease and no confidence flag goes from true to false.
C10_ConfidenceMonotone ==
    pc = "added" =>
        /\ output.overall >= prevOutput.overall
        /\ \A f \in Flags : prevOutput[f] => output[f]

\* a first site was added to an input that had two facts
C10_Witness ==
    /\ pc = "added"
    /\ prevOutput.overall = 29
    /\ ~prevOutput.hasSites
    /\ output.hasSites
    /\ output.overall = 43

(***************************************************************************)
(* The records of the returned ParsedBrief, by kind.                       *)
(***************************************************************************)
\* the elements of a list
Range(q) == {q[k] : k \in 1..Len(q)}
\* the flights of the returned record
FlightsOf(brief) == IF brief.schedule = Null THEN <<>> ELSE brief.schedule.flights
\* every record of the list has the keys of every other
SameKeys(q) == \A a \in Range(q) : \A b \in Range(q) : DOMAIN a = DOMAIN b

\* C11: the output shape is stable: the returned record has the same set of
\* keys for every input, and every Site, every Contact (talent and
\* talent_companion included) and every FlightLeg has the same set of keys as
\* every other record of its kind; an absent value is an explicit null under
\* its key, never a key left out.
C11_StableShape ==
    pc = "done" =>
        /\ DOMAIN output = BriefKeys
        /\ SameKeys(output.sites)
        /\ SameKeys(output.contacts)
        /\ SameKeys(FlightsOf(output))

\* a plain string field is trimmed and not empty
TrimmedText(x) == x # "" /\ Trim(x) = x
\* a string-or-null leaf is null or a trimmed non-empty string
StringLeaf(v) == v = Null \/ TrimmedText(v[1])
\* an integer-or-null leaf
IntegerLeaf(v) == v = Null \/ v[1] \in Nat
\* the fields F that record r has are string-or-null leaves
StringLeaves(r, F) == \A f \in F \cap DOMAIN r : StringLeaf(r[f])
HotelLeaves(h) ==
    /\ StringLeaves(h, {"checkIn", "checkOut", "confirmation", "roomType", "rate"})
    /\ IntegerLeaf(h.nights)
SiteLeaves(x) ==
    /\ TrimmedText(x.type) /\ TrimmedText(x.label)
    /\ StringLeaves(x, {"name", "address", "phone", "email", "raw"})
    /\ "hotelDetails" \in DOMAIN x => HotelLeaves(x.hotelDetails)
ContactLeaves(c) ==
    /\ TrimmedText(c.group)
    /\ StringLeaves(c, {"name", "title", "office", "cell", "email", "companion", "raw"})
FlightLeaves(f) ==
    /\ TrimmedText(f.airline) /\ TrimmedText(f.flightNumber)
    /\ StringLeaves(f, {"reservationCode", "seat", "raw"})

\* C12: in every returned record every leaf field (of the header, of each
\* Site with its raw and hotelDetails, of each Contact, of each FlightLeg and
\* of the sections passthroughs) is a trimmed non-empty string, an integer or
\* null; an empty string never appears.
C12_LeavesTrimmedOrNull ==
    pc = "done" =>
        /\ StringLeaf(output.bookingNumber)
        /\ StringLeaves(output.header, DOMAIN NullHeader)
        /\ \A x \in Range(output.sites) : SiteLeaves(x)
        /\ \A c \in Range(output.contacts) : ContactLeaves(c)
        /\ \A f \in Range(FlightsOf(output)) : FlightLeaves(f)
        /\ output.schedule # Null => StringLeaf(output.schedule.raw)
        /\ StringLeaves(output.sections, DOMAIN output.sections)

RECURSIVE HeadStartsFrom(_, _)
HeadStartsFrom(s, from) ==
    LET Go(i) == IF i < 0 THEN <<>>
                 ELSE <<i>> \o HeadStartsFrom(s, FlightHeadAt(s, i).numEnd)
    IN Go(FirstOf({i \in from..Len(s) : FlightHeadAt(s, i).ok}))
\* leg k is the match that starts at starts[k]: its airline and number are the
\* text there, and its raw text is the canonical form of a span that starts
\* there and ends at or before the start of the next match
LegAt(s, starts, k, leg) ==
    LET Ends(m, limit) ==
            /\ leg.airline = Trim(Slice(s, starts[k], m.airlineEnd))
            /\ leg.flightNumber = Slice(s, m.numStart, m.numEnd)
            /\ \E e \in m.numEnd..limit : leg.raw = Some(normalize(Slice(s, starts[k], e)))
    IN Ends(FlightHeadAt(s, starts[k]), IF k < Len(starts) THEN starts[k + 1] ELSE Len(s))
LegsAt(s, starts, legs) ==
    /\ Len(legs) = Len(starts)
    /\ \A k \in 1..Len(starts) : LegAt(s, starts, k, legs[k])

\* C14: parseFlights returns one FlightLeg per flight-pattern match, in the
\* order the matches appear in the schedule text, with no deduplication (a
\* flight restated later yields a second entry), and the raw spans of
\* consecutive entries do not overlap.
C14_OneLegPerMatchInOrder ==
    pc = "returned" => LegsAt(input, HeadStartsFrom(input, 0), output)

\* the same flight stated twice was parsed into two entries
C14_Witness ==
    /\ pc = "returned"
    /\ Len(output) = 3
    /\ output[1].airline = "AA" /\ output[1].flightNumber = "1234"
    /\ output[2].airline = "Delta Air Lines"
    /\ output[3].airline = "AA" /\ output[3].flightNumber = "1234"

\* C15: invocations are independent: under any interleaving of the requests
\* of one isolate, the record parseLaiEventBrief returns for a text depends
\* only on that text, and two invocations on the same text return equal
\* records whatever ran before or between them; no state, regex match
\* positions included, survives from one invocation to the next.
C15_InvocationsIndependent ==
    /\ \A r \in Requests :
          pc[r] = "done" => output[r] = parseLaiEventBriefEntering(input[r], 0)
    /\ \A q \in Requests, r \in Requests :
          (pc[q] = "done" /\ pc[r] = "done" /\ input[q] = input[r]) => output[q] = output[r]

\* two requests were served, one of them leaving its regex object past the
\* start, the other on a text whose label lies before that position
C15_Witness ==
    /\ \A r \in Requests : pc[r] = "done"
    /\ \E q \in Requests, r \in Requests :
          /\ lastIndexAfterBrief(input[q], 0) > 0
          /\ input[r] = "CONTACT INFORMATION\nEVENT SITE: A\nTALENT CONTACT: Tom\n"
          /\ output[r].sites[1].raw = Some("A")

\* the end of a "=== PAGE n ===" marker that starts at offset i, or -1
PageMarkerEndAt(s, i) ==
    LET Close(e) == IF e > i + 9 /\ LitAt(s, e, " ===") THEN e + 4 ELSE -1
    IN IF LitAt(s, i, "=== PAGE ") THEN Close(RunEnd(s, i + 9, DigitChars)) ELSE -1

\* the text without its "=== PAGE n ===" markers
RECURSIVE RemovePageMarkers(_)
RemovePageMarkers(s) ==
    LET Cut(i) == IF i < 0 THEN s
                  ELSE Slice(s, 0, i)
                       \o RemovePageMarkers(Slice(s, PageMarkerEndAt(s, i), Len(s)))
    IN Cut(FirstOf({i \in 0..Len(s) : PageMarkerEndAt(s, i) >= 0}))

\* the headings, site types and contact groups detected in a text, in order
DetectedIn(text) ==
    LET Labels(block) ==
            [sites |-> [k \in DOMAIN SortByIdx(SiteLabelPositions(block, ToUpperCase(block), 1))
                          |-> SortByIdx(SiteLabelPositions(block, ToUpperCase(block), 1))[k].type],
             contacts |-> [k \in DOMAIN sliceLabeledChunks(block, labelDefs)
                             |-> sliceLabeledChunks(block, labelDefs)[k].group]]
        Hits(hits) == [k \in DOMAIN hits |-> hits[k].heading]
    IN [headings |-> Hits(SortedHeadingHits(text, Headings)),
        labels |-> Labels(FirstSpanOrEmpty(splitByHeadingsMulti(text, Headings),
                                           "CONTACT INFORMATION"))]

\* C16: page markers have no effect on detection: for every paged text, the
\* heading occurrences and the site and contact labels of CONTACT INFORMATION
\* that are found, and their order, are the same with the "=== PAGE n ==="
\* markers present as with the markers removed.
C16_MarkersDoNotAffectDetection ==
    pc = "split" => DetectedIn(t) = DetectedIn(normalize(RemovePageMarkers(output.rawText)))

\* the site label that matches at offset i of block, as a set of at most one
\* index of siteLabels
SiteLabelsAt(block, U, i) ==
    {k \in DOMAIN siteLabels : LabelEndAt(block, U, i, siteLabels[k].label) >= 0}

\* the types of the site label occurrences of block at or after from, in
\* document order: each occurrence is searched from the end of the one before
RECURSIVE SiteLabelOccurrences(_, _, _)
SiteLabelOccurrences(block, U, from) ==
    LET Label(i, k) == <<siteLabels[k].type>>
                       \o SiteLabelOccurrences(block, U,
                                                LabelEndAt(block, U, i, siteLabels[k].label))
        Leftmost(i) == IF i < 0 THEN <<>> ELSE Label(i, CHOOSE k \in SiteLabelsAt(block, U, i) : TRUE)
    IN Leftmost(FirstOf({i \in from..Len(block) : SiteLabelsAt(block, U, i) # {}}))

\* C17: sites holds exactly one Site per site label occurrence of the CONTACT
\* INFORMATION section, in document order: as many sites as occurrences, of
\* the types of the occurrences, so that a label that occurs twice yields two
\* sites, one occurrence yields one site and no occurrence yields no site.
C17_OneSitePerLabelOccurrence ==
    pc = "done" =>
        [k \in DOMAIN output.sites |-> output.sites[k].type]
            = SiteLabelOccurrences(contactBlock, ToUpperCase(contactBlock), 0)

\* the text that follows a label ending at offset e of block, up to the first
\* all-caps label line after its first line
TextFollowingLabel(block, e) ==
    LET Cut(chunk, m2) == IF m2.found /\ m2.index > 0 THEN Trim(Slice(chunk, 0, m2.index))
                          ELSE chunk
        OfChunk(chunk) == Cut(chunk, execNextCapsLabel("\n" \o chunk, 0))
    IN OfChunk(Trim(Slice(block, e, Len(block))))

\* block has one site label occurrence, spelled EVENT/HOTEL SITE
OnlyEventHotelSite(block) ==
    LET First(U, i) == i >= 0 /\ SiteLabelsAt(block, U, i) = {2}
    IN /\ Len(SiteLabelOccurrences(block, ToUpperCase(block), 0)) = 1
       /\ First(ToUpperCase(block),
                FirstOf({i \in 0..Len(block) : SiteLabelsAt(block, ToUpperCase(block), i) # {}}))

\* C18: the spelling EVENT/HOTEL SITE resolves to category event: a contact
\* block whose only site label is "EVENT/HOTEL SITE: <name> ..." yields a site
\* of type event whose name, address and phone are those of the text that
\* follows the label.
C18_EventHotelSiteIsEvent ==
    (pc = "returned" /\ OnlyEventHotelSite(input)) =>
        LET Follows(parsed) ==
                \E k \in DOMAIN sites :
                    /\ sites[k].type = "event"
                    /\ sites[k].name = parsed.name
                    /\ sites[k].address = parsed.address
                    /\ sites[k].phone = parsed.phone
            After(U, i) ==
                Follows(parseAddressBlock(
                    TextFollowingLabel(input, LabelEndAt(input, U, i, siteLabels[2].label))))
        IN After(ToUpperCase(input),
                 FirstOf({i \in 0..Len(input) :
                            SiteLabelsAt(input, ToUpperCase(input), i) # {}}))

\* s has an all-caps "LABEL:" line after its first line
HasFollowingCapsLabel(s) ==
    \E i \in 1..Len(s) : CapsLabelEndAt("\n" \o s, i) >= 0

\* C19: secondary cut: every site made for a site label, whatever its position
\* among the sites of the block, has a raw text that ends before the first
\* all-caps "LABEL:" line that follows its first line.
C19_SecondaryCutForEverySite ==
    (pc = "returned" /\ SiteLabelOccurrences(input, ToUpperCase(input), 0) # <<>>) =>
        \A k \in DOMAIN sites : ~HasFollowingCapsLabel(sites[k].raw[1])

\* hits are in the order of their offsets, and hits of one offset are in the
\* order Before
OrderedByIdx(hits, Before(_, _)) ==
    \A j, k \in DOMAIN hits :
        j < k => /\ hits[j].idx <= hits[k].idx
                 /\ hits[j].idx = hits[k].idx => Before(hits[j], hits[k])

\* heading a is listed before heading b
HeadingListedBefore(a, b) ==
    \E j, k \in DOMAIN Headings : j < k /\ Headings[j] = a.heading /\ Headings[k] = b.heading

\* the spelling of hit a is listed in labelDefs before the spelling of hit b
SpellingListedBefore(a, b) ==
    \E d, e \in DOMAIN labelDefs :
        /\ labelDefs[d].group = a.group /\ labelDefs[e].group = b.group
        /\ \E j \in DOMAIN labelDefs[d].labels, k \in DOMAIN labelDefs[e].labels :
              /\ labelDefs[d].labels[j] = a.label /\ labelDefs[e].labels[k] = b.label
              /\ d < e \/ (d = e /\ j < k)

\* the sorted label hits of sliceLabeledChunks
SortedLabelHits(block) == SortByIdx(AllLabelHits(block, ToUpperCase(block), labelDefs, 1))

\* every match of a heading name in text is one of hits
HeadingMatchesRecorded(text, U, hits) ==
    \A h \in DOMAIN Headings : \A i \in 0..Len(text) :
        HeadingAt(text, U, i, Headings[h]) =>
            \E k \in DOMAIN hits : hits[k].heading = Headings[h] /\ hits[k].idx = i

\* every match of a label spelling in block is one of hits
SpellingMatchesRecorded(block, U, hits) ==
    \A d \in DOMAIN labelDefs : \A l \in DOMAIN labelDefs[d].labels : \A i \in 0..Len(block) :
        LabelEndAt(block, U, i, labelDefs[d].labels[l]) >= 0 =>
            \E k \in DOMAIN hits :
                /\ hits[k].group = labelDefs[d].group
                /\ hits[k].label = labelDefs[d].labels[l]
                /\ hits[k].idx = i

\* each hit has its own span, and of two hits at one offset the earlier one
\* has a span that yields no contact
TiedSpansYieldOnce(hits, chunks) ==
    /\ Len(chunks) = Len(hits)
    /\ \A j, k \in DOMAIN hits :
          (j < k /\ hits[j].idx = hits[k].idx) => ContactsOfChunks(<<chunks[j]>>, 1) = <<>>

\* C20: ties: heading names or label spellings that match at the same offset
\* are all recorded as occurrences at that offset, in the order in which the
\* vocabulary lists them, each with its own span, and the text that follows
\* the tied offset is turned into contacts once.
C20_TiesRecordedInVocabularyOrder ==
    pc = "done" =>
        /\ \A hits \in {SortedHeadingHits(t, Headings)} :
              /\ HeadingMatchesRecorded(t, ToUpperCase(t), hits)
              /\ OrderedByIdx(hits, HeadingListedBefore)
        /\ \A hits \in {SortedLabelHits(contactBlock)} :
              /\ SpellingMatchesRecorded(contactBlock, ToUpperCase(contactBlock), hits)
              /\ OrderedByIdx(hits, SpellingListedBefore)
              /\ TiedSpansYieldOnce(hits, sliceLabeledChunks(contactBlock, labelDefs))

\* a brief whose contact block has both spellings of LEADING AUTHORITIES
\* CONTACTS matching at offset 0 was parsed into one contact
C20_Witness ==
    /\ pc = "done"
    /\ contactBlock = "LEADING AUTHORITIES CONTACTS: Al B, Mgr"
    /\ Len(SortedLabelHits(contactBlock)) = 2
    /\ SortedLabelHits(contactBlock)[1].idx = SortedLabelHits(contactBlock)[2].idx
    /\ Len(output.contacts) = 1
    /\ output.contacts[1].group = "lai_contacts"

\* the lines of the raw texts of persons k and after, in order
RECURSIVE SpanLines(_, _)
SpanLines(persons, k) ==
    IF k > Len(persons) THEN <<>>
    ELSE SplitLines(persons[k].raw[1], 0) \o SpanLines(persons, k + 1)

\* persons are the consecutive spans of lines: a span after the first starts
\* with a matching line, no later line of a span matches, and the spans hold
\* every line once, in order
PartitionsLines(lines, persons) ==
    /\ SpanLines(persons, 1) = lines
    /\ \A k \in DOMAIN persons :
          \A ls \in {SplitLines(persons[k].raw[1], 0)} :
              /\ k > 1 => newPerson(ls[1])
              /\ \A j \in 2..Len(ls) : ~newPerson(ls[j])
    /\ Len(persons) = Cardinality({k \in DOMAIN lines : newPerson(lines[k])})
                        + (IF Len(lines) > 0 /\ ~newPerson(lines[1]) THEN 1 ELSE 0)

\* C21: parsePeopleList partitions the non-empty lines of a sub-block into
\* consecutive person spans in order: a line matching "<Capitalized Name>, "
\* starts a new span, every other line joins the current span, every line is in
\* exactly one span, and the number of persons is the number of matching lines
\* plus one when the first line does not match (one person when none matches).
C21_PeopleListPartitionsLines ==
    pc = "returned" => PartitionsLines(Lines(input), contacts)

\* a sub-block of three lines whose first line does not match and whose second
\* line does was split into two persons
C21_Witness ==
    /\ pc = "returned"
    /\ input = "Ann\nAl B, Mgr\nOffice: 5551234"
    /\ Len(contacts) = 2
    /\ contacts[1].raw = Some("Ann")
    /\ contacts[2].raw = Some("Al B, Mgr\nOffice: 5551234")

\* the number after the label "<name>'s Cell:" of block, or null
CellOf(block, name) == MatchPhoneAfter(block, ToUpperCase(name) \o "'S CELL:", FALSE)

\* the records of a block with a companion clause: talent, then the companion
\* with the name of the clause and the number after its own possessive label
TalentAndCompanion(block, persons, companion) ==
    /\ Len(persons) = 2
    /\ persons[1].group = "talent"
    /\ persons[2].group = "talent_companion"
    /\ persons[2].name = companion
    /\ persons[2].cell = CellOf(block, companion[1])

\* C22: parseTalentContacts returns no record for an empty block, one record
\* of group talent for a block without a "(will be accompanied by <name>)"
\* clause, and talent followed by talent_companion for a block with the
\* clause, the companion having the name of the clause and, as its cell, the
\* number after its own "<Name>'s Cell:" label.
C22_TalentAndCompanionRecords ==
    pc = "returned" =>
        IF input = "" THEN contacts = <<>>
        ELSE IF MatchCompanion(input) = Null
             THEN Len(contacts) = 1 /\ contacts[1].group = "talent"
        ELSE TalentAndCompanion(input, contacts, MatchCompanion(input))

\* a is a two-letter uppercase code
TwoLetterCode(a) == Len(a) = 2 /\ Ch(a, 0) \in UpperChars /\ Ch(a, 1) \in UpperChars

\* every word of a is capitalized: an uppercase letter followed by letters of
\* which at least one is lowercase
CapitalizedWords(a) ==
    /\ a # ""
    /\ \A i \in 0..(Len(a) - 1) :
          /\ Ch(a, i) \in LetterChars \cup WsChars
          /\ (Ch(a, i) \in LetterChars /\ (i = 0 \/ Ch(a, i - 1) \notin LetterChars)) =>
                /\ Ch(a, i) \in UpperChars
                /\ \E j \in (i + 1)..(RunEnd(a, i, LetterChars) - 1) : Ch(a, j) \in LowerChars

\* n is 2 to 5 digits
FlightDigits(n) == Len(n) \in 2..5 /\ \A i \in 0..(Len(n) - 1) : Ch(n, i) \in DigitChars

\* C23: every FlightLeg has an airline that is a two-letter uppercase code or
\* a carrier name of capitalized words, and a flightNumber of 2 to 5 digits; an
\* all-caps word of three or more letters followed by a number, as in a page
\* marker, gives no FlightLeg.
C23_AirlineTokenThenNumber ==
    pc = "returned" =>
        \A k \in DOMAIN output :
            /\ TwoLetterCode(output[k].airline) \/ CapitalizedWords(output[k].airline)
            /\ FlightDigits(output[k].flightNumber)

\* the end of a "- - -" divider that starts at offset i of s, or -1
DividerEndAt(s, i) ==
    LET Dash(d) == d < Len(s) /\ Ch(s, d) = "-"
        Third(d3) == IF Dash(d3) THEN d3 + 1 ELSE -1
        Second(d2) == IF Dash(d2) THEN Third(SkipWs(s, d2 + 1)) ELSE -1
    IN IF Dash(i) THEN Second(SkipWs(s, i + 1)) ELSE -1

\* the header fields read from lines by position and by the date words
HeaderOfLines(h, lines) ==
    /\ h.talentName = LineOrNull(lines, 1)
    /\ h.clientName = LineOrNull(lines, 2)
    /\ h.eventTitle = LineOrNull(lines, 3)
    /\ h.eventDateText = IF \E k \in DOMAIN lines : HasDateWord(lines[k])
                          THEN Some(lines[FindDateIdx(lines)]) ELSE Null

\* C24: when the text has a "- - -" divider followed by a CONTACT INFORMATION
\* heading, the header facts are those of the block between the first divider
\* and the first CONTACT INFORMATION heading: the first three non-empty lines
\* and the first line with a weekday or month name.
C24_HeaderFromDividerToHeading ==
    pc = "done" =>
        LET Between(d, e, h) == (d >= 0 /\ h >= e) => HeaderOfLines(output.header,
                                                                   Lines(Slice(t, e, h)))
            Divider(d) == Between(d, DividerEndAt(t, d),
                                  HeadingIndex(t, ToUpperCase(t), "CONTACT INFORMATION", 0))
        IN Divider(FirstOf({i \in 0..Len(t) : DividerEndAt(t, i) >= 0}))

\* the non-whitespace characters of s[lo..hi-1], in order, by halves
RECURSIVE NonWhitespace(_, _, _)
NonWhitespace(s, lo, hi) ==
    IF hi <= lo THEN ""
    ELSE IF hi = lo + 1 THEN (IF Ch(s, lo) \in WsChars THEN "" ELSE Ch(s, lo))
    ELSE NonWhitespace(s, lo, (lo + hi) \div 2) \o NonWhitespace(s, (lo + hi) \div 2, hi)

\* s is in canonical form
Canonical(s) ==
    /\ \A i \in 0..(Len(s) - 1) : Ch(s, i) \notin {"\r", "\t"}
    /\ \A i \in 0..Len(s) :
          /\ ~LitAt(s, i, "  ")
          /\ ~LitAt(s, i, " \n")
          /\ ~LitAt(s, i, "\n ")
          /\ ~LitAt(s, i, "\n\n\n")
    /\ s # "" => Ch(s, 0) \notin WsChars /\ Ch(s, Len(s) - 1) \notin WsChars

\* C25: for every input, normalize returns a string with no carriage return,
\* no tab, no run of two or more spaces, no space directly before or after a
\* newline, no run of three or more newlines and no leading or trailing
\* whitespace, whose non-whitespace characters are those of the input in the
\* same order.
C25_NormalizeGivesCanonicalText ==
    pc \in {"returned", "renormalized"} =>
        /\ Canonical(output)
        /\ NonWhitespace(output, 0, Len(output)) = NonWhitespace(input, 0, Len(input))

\* a text with a tab and with spaces around a newline was normalized
C25_Witness ==
    /\ pc = "returned"
    /\ input = "a \n\ta"
    /\ output = "a\na"

\* the header field that takes line k of the header block by position
PositionalField(h, k) ==
    IF k = 1 THEN h.talentName ELSE IF k = 2 THEN h.clientName ELSE h.eventTitle

\* line k of lines is the date line and is reported both as eventDateText and
\* as the positional field k
ReportedTwice(h, lines, k) ==
    /\ k = FindDateIdx(lines)
    /\ h.eventDateText = Some(lines[k])
    /\ PositionalField(h, k) = Some(lines[k])

\* C26: no header line is assigned to two header fields: the line reported as
\* eventDateText is not the line reported as talentName, clientName or
\* eventTitle.
C26_DateLineInOneField ==
    (pc = "done" /\ output.header.raw # Null) =>
        \A lines \in {Lines(output.header.raw[1])} :
            \A k \in 1..3 : k <= Len(lines) => ~ReportedTwice(output.header, lines, k)

AllReleasedOnce(kinds) ==
    \A h \in DOMAIN heap : h.kind \in kinds => heap[h].released = 1

ResponsesFor(req) ==
    IF req.method = "GET" /\ req.path = "/" THEN {Response("OK", 200)}
    ELSE IF req.method = "POST" /\ req.path = "/api/extract-all"
    THEN IF req.body = "short"
         THEN {json(FALSE, "empty_body", 400), json(FALSE, "extract_failed", 500)}
         ELSE {json(TRUE, "", 200), json(FALSE, "extract_failed", 500)}
    ELSE {Response("Not found", 404)}

\* C29: every request to the fetch handler gets exactly one response: GET /
\* gets 200 OK; POST /api/extract-all gets 400 empty_body for a missing or
\* short body, 500 extract_failed when reading, decoding or parsing throws,
\* and otherwise 200 with ok = true; any other method or path gets 404. No
\* exception raised while handling POST /api/extract-all escapes the handler.
C29_OneResponsePerRequest ==
    \A r \in Requests :
       /\ pc[r].at # "escaped"
       /\ Len(output[r]) <= 1
       /\ pc[r].at = "done" <=> Len(output[r]) = 1
       /\ pc[r].at = "done" => output[r][1] \in ResponsesFor(input[r])
       /\ pc[r].at = "done" /\ input[r].body = "corrupt" => output[r][1].status # 200

\* the pages, each after its marker, one after the other from page k
RECURSIVE MarkedPages(_, _)
MarkedPages(pages, k) ==
    IF k > Len(pages) THEN ""
    ELSE "\n\n=== PAGE " \o PageNumber(pages[k].page) \o " ===\n" \o pages[k].text
         \o MarkedPages(pages, k + 1)

\* the parameter is absent or its value is not a number
AbsentOrNotANumber(v) == v = Null \/ ~NumberOf(v).finite

\* C30: for every value of the maxPages query parameter (absent, non-numeric,
\* fractional, negative or large) the effective maxPages is an integer in
\* 1..10, and 1 when the parameter is absent or not a number; buildPagedText
\* then returns between 1 and maxPages pages numbered consecutively from 1,
\* extractedPages is the number of pages returned, and the rawText handed to
\* the parser is exactly the concatenation of those pages, each after its
\* === PAGE n === marker, so that text beyond the cap is never parsed.
C30_PageCap ==
    /\ pc # "start" =>
          /\ pageCap \in 1..10
          /\ AbsentOrNotANumber(input.maxPages) => pageCap = 1
    /\ pc \in {"paged", "parsed"} =>
          /\ Len(output.pages) \in 1..pageCap
          /\ \A i \in 1..Len(output.pages) : output.pages[i].page = i
          /\ output.extractedPages = Len(output.pages)
          /\ output.rawText = MarkedPages(output.pages, 1)
    /\ pc = "parsed" => t = normalize(MarkedPages(output.pages, 1))

\* an eleven-page text under maxPages=99: ten pages are returned and the
\* text of the eleventh is not in what the parser reads
C30_Witness ==
    /\ pc = "parsed"
    /\ input = [maxPages |-> Some("99"), text |-> "a\fb\fc\fd\fe\ff\fg\fh\fi\fj\fk"]
    /\ pageCap = 10
    /\ output.extractedPages = 10
    /\ output.pages[10] = [page |-> 10, text |-> "j"]
    /\ \A i \in 0..(Len(t) - 1) : Ch(t, i) # "k"

====
